---------------------------- MODULE Spec2Model ----------------------------
(***************************************************************************)
(* BotRanked: the queue -> match -> draft -> ban -> vote -> finalize state  *)
(* machine of src/queue.js (refactored revision: src/unnamed/part_011) and  *)
(* its collaborators (admin commands, memory cleanup).                      *)
(*                                                                          *)
(* Execution model.  Node.js runs one handler at a time; a handler gives up *)
(* control only at an `await` of real I/O (a Discord REST call, a database  *)
(* round trip, a timer).  Every action below is the code of one handler     *)
(* between two such suspension points, so actions are atomic exactly where  *)
(* the JavaScript is.  An `await` of an async function that returns without *)
(* doing I/O resumes in the same macrotask and is not a suspension point.   *)
(* Handlers in flight live in the slots of `h`; a slot's "pc" names the     *)
(* await it is suspended on.                                                *)
(***************************************************************************)
EXTENDS Integers, Sequences, FiniteSets, TLC

(***************************************************************************)
(* Bounds of the model (not program constants).                            *)
(***************************************************************************)
NumUsers == 7
NumJoinUsers == 2
NumTiers == 2
MaxHandlers == 2
MaxClicks == 7
MaxJoinClicks == 4
MaxMatches == 2
MaxTicks == 1
NumDraftActors == 3
NumBanMaps == 3
MaxDraftClicks == 7
NumVoters == 4
MaxVoteClicks == 5
MaxSweeps == 3
MaxBanClicks == 3
MaxTriggerClicks == 3
MaxForfeitClicks == 4
MaxForfeitTicks == 3
MaxLiveClicks == 6
MaxOrderClicks == 3
MaxDedupeClicks == 4
MaxRedeliveries == 2
MaxClears == 1
MaxLimiterRequests == 2
MaxLimiterWindow == 3
MaxLimiterTime == 7
MaxLimiterCalls == 5
MaxDebt == 2
MaxRankPoints == 2300
MaxRankCalls == 2
MaxSweepClicks == 3
MaxStuckSweeps == 26
MaxStuckClicks == 1
MaxRejectClicks == 3
MaxFinalizeClicks == 2
MaxCacheTicks == 3
MaxRoleTiers == 3
MaxRoleSyncs == 2
MaxRefreshClicks == 3
MaxRejoinClicks == 3

(***************************************************************************)
(* Program constants.                                                      *)
(***************************************************************************)
QUEUE_SIZE == 6
VOTE_THRESHOLD == 4
POINTS_WIN == 30
POINTS_LOSS == 30
BUTTON_COOLDOWN == 3000
DefaultPoints == 1000
CACHE_TTL == 10000
COOLDOWN_TTL == 60 * 60 * 1000
MATCH_TTL == 12 * 60 * 60 * 1000
DODGE_BAN_DURATION == 60 * 60 * 1000
CLEANUP_INTERVAL == 30 * 60 * 1000
DODGE_TIME_LIMIT == 5 * 60 * 1000
PROCESSED_CLEAR_INTERVAL == 5 * 60 * 1000
MAPS == <<"Temple-M", "Old-School", "Neden-3", "Tunnel", "Colloseum", "Ziggurant", "Jungle">>
AllChannels == <<"v3-general", "v3-advanced", "v3-challenger", "v3-elite", "v3-pro">>
QUEUE_ROLES == [c \in {AllChannels[i] : i \in 1..5} |-> c # "v3-general"]

Users == 1..NumUsers
Tiers == {AllChannels[i] : i \in 1..NumTiers}
Handlers == 1..MaxHandlers
Channels == 1..MaxMatches
NoUser == 0
NoChan == 0
NoMatchId == 0
NoTime == 0 - 1

VARIABLES
    now,                    \* Date.now(), in ms
    queues,                 \* tier -> sequence of user ids (a JS Set: insertion order, no duplicates)
    queueLocks,             \* tier -> lock.locked of the membership lock
    creatingGamesInGuild,   \* tier -> lock.locked of the game-creation lock
    matches,                \* the registry: the channel ids that are keys of the Map
    states,                 \* channel id -> the match state object (lives on while a handler holds it)
    voteUpdateQueues,       \* [keys: match ids in the Map, timers: pending refresh timers]
    buttonCooldowns,        \* user -> [timestamp, createdAt] (partial)
    dodgeBans,              \* user -> [timestamp, createdAt] (partial)
    processedInteractions,  \* interaction ids seen
    nextInteraction,        \* the next fresh interaction id the gateway hands out
    dbUsers,                \* store: user -> [points, wins, losses]
    dbMatchStatus,          \* store: match id -> "draft" | "done" | "cancelled" (partial)
    dbVotes,                \* store: sequence of vote rows [matchId, voter, team]
    syncPlayerRankLimiter,  \* the RateLimiter instance: [maxRequests, windowMs, requests]
    userCache,              \* user -> [points, timestamp] (partial): the Map of utils/user-cache.js
    guildMembers,           \* user -> [roles: rank roles held on the server, cache: member.roles.cache]
    h,                      \* handler slot -> the handler in flight in it
    hist                    \* history of what happened, read by the properties only

vars == <<now, queues, queueLocks, creatingGamesInGuild, matches, states, voteUpdateQueues,
          buttonCooldowns, dodgeBans, processedInteractions, nextInteraction,
          dbUsers, dbMatchStatus, dbVotes, syncPlayerRankLimiter, userCache, guildMembers, h, hist>>

(***************************************************************************)
(* Helpers for JS collections.                                             *)
(***************************************************************************)
Range(s) == {s[i] : i \in 1..Len(s)}
SetAdd(s, x) == IF x \in Range(s) THEN s ELSE Append(s, x)
SetDelete(s, x) == SelectSeq(s, LAMBDA y : y # x)
SetDeleteAll(s, xs) == SelectSeq(s, LAMBDA y : y \notin xs)
Slice(s, n) == SubSeq(s, 1, IF Len(s) < n THEN Len(s) ELSE n)
MapDelete(f, k) == [x \in (DOMAIN f) \ {k} |-> f[x]]
MapSet(f, k, v) == [x \in (DOMAIN f) \cup {k} |-> IF x = k THEN v ELSE f[x]]

\* new RateLimiter(maxRequests, windowMs) (utils/rate-limiter.js:6-10).
RateLimiter(maxRequests, windowMs) ==
    [maxRequests |-> maxRequests, windowMs |-> windowMs, requests |-> <<>>]

Idle == [pc |-> "idle", kind |-> "none", user |-> NoUser, tier |-> "", chan |-> NoChan,
         pick |-> NoUser, map |-> "", team |-> "", branch |-> "", t0 |-> 0, reply |-> "",
         players |-> <<>>, row |-> 0, winner |-> "", winners |-> <<>>, losers |-> <<>>,
         idx |-> 0, role |-> FALSE, points |-> 0, rank |-> "", votes |-> {}]

(***************************************************************************)
(* Queue registry predicates (part_011:215-231, 268-276).                   *)
(***************************************************************************)
isUserInActiveMatch(userId) ==
    \E c \in matches : ~states[c].finalized /\ userId \in states[c].players

\* isUserInOtherQueue with the scan of the other tiers left out.
NoOtherQueue(userId, currentChannelName) == ""

\* The name of another tier whose queue holds the user, or "" (null).
isUserInOtherQueue(userId, currentChannelName) ==
    LET others == {i \in 1..5 : /\ AllChannels[i] # currentChannelName
                                /\ AllChannels[i] \in Tiers
                                /\ userId \in Range(queues[AllChannels[i]])}
    IN IF others = {} THEN ""
       ELSE AllChannels[CHOOSE i \in others : \A j \in others : i <= j]

\* isUserDodgeBanned's answer at time `now`; its side effect is dodgeBansAfterCheck.
isUserDodgeBanned(userId) ==
    /\ userId \in DOMAIN dodgeBans
    /\ ~(now >= dodgeBans[userId].timestamp)

dodgeBansAfterCheck(userId) ==
    IF userId \in DOMAIN dodgeBans /\ now >= dodgeBans[userId].timestamp
    THEN MapDelete(dodgeBans, userId)
    ELSE dodgeBans

(***************************************************************************)
(* queue_join's checks inside the critical section (part_011:730-765), in  *)
(* the order of the code; each check is only evaluated when the ones       *)
(* before it passed.                                                       *)
(***************************************************************************)
\* JoinVerdict with the ban looked up before the role.
JoinVerdictBanFirst(memberId, channelName, hasRole) ==
    IF memberId \in Range(queues[channelName]) THEN "already"
    ELSE IF isUserInOtherQueue(memberId, channelName) # "" THEN "other"
    ELSE IF isUserDodgeBanned(memberId) THEN "banned"
    ELSE IF QUEUE_ROLES[channelName] /\ ~hasRole THEN "role"
    ELSE IF isUserInActiveMatch(memberId) THEN "ingame"
    ELSE "joined"

JoinVerdict(memberId, channelName, hasRole) ==
    IF memberId \in Range(queues[channelName]) THEN "already"
    ELSE IF isUserInOtherQueue(memberId, channelName) # "" THEN "other"
    ELSE IF QUEUE_ROLES[channelName] /\ ~hasRole THEN "role"
    ELSE IF isUserDodgeBanned(memberId) THEN "banned"
    ELSE IF isUserInActiveMatch(memberId) THEN "ingame"
    ELSE "joined"

\* Whether the join's ban check was reached (it deletes an expired entry).
BanCheckReached(memberId, channelName, hasRole) ==
    JoinVerdict(memberId, channelName, hasRole) \in {"banned", "ingame", "joined"}

(***************************************************************************)
(* Captain selection and the new match state (part_011:327-355).           *)
(* User.findAll returns the rows of the players that have a profile, here  *)
(* in table (id) order; Array.prototype.sort is stable.                    *)
(***************************************************************************)
ProfileRows(playerIds) ==
    LET ids == {u \in Range(playerIds) : u \in DOMAIN dbUsers}
        F[S \in SUBSET ids] ==
            IF S = {} THEN <<>>
            ELSE LET m == CHOOSE x \in S : \A y \in S : x <= y
                 IN <<m>> \o F[S \ {m}]
    IN F[ids]

\* sortedByPoints with the comparison turned round (a.points - b.points).
sortedAscending(rows) ==
    LET F[idx \in SUBSET (1..Len(rows))] ==
            IF idx = {} THEN <<>>
            ELSE LET best == CHOOSE i \in idx : \A j \in idx :
                                \/ dbUsers[rows[i]].points < dbUsers[rows[j]].points
                                \/ (dbUsers[rows[i]].points = dbUsers[rows[j]].points /\ i <= j)
                 IN <<rows[best]>> \o F[idx \ {best}]
    IN F[1..Len(rows)]

\* rows sorted by descending points, ties kept in row order
sortedByPoints(rows) ==
    LET F[idx \in SUBSET (1..Len(rows))] ==
            IF idx = {} THEN <<>>
            ELSE LET best == CHOOSE i \in idx : \A j \in idx :
                                \/ dbUsers[rows[i]].points > dbUsers[rows[j]].points
                                \/ (dbUsers[rows[i]].points = dbUsers[rows[j]].points /\ i <= j)
                 IN <<rows[best]>> \o F[idx \ {best}]
    IN F[1..Len(rows)]

NewMatchState(playerIds, captainA, captainB) ==
    [players |-> Range(playerIds),
     captainA |-> captainA,
     captainB |-> captainB,
     teamA |-> {captainA},
     teamB |-> {captainB},
     remaining |-> SelectSeq(playerIds, LAMBDA id : id # captainA /\ id # captainB),
     phase |-> "A1",
     matchId |-> NoMatchId,
     availableMaps |-> MAPS,
     bannedMaps |-> <<>>,
     selectedMap |-> "",
     finalized |-> FALSE,
     voteStartTime |-> NoTime,
     createdAt |-> now]

(***************************************************************************)
(* Time.  Date.now() advances between handler steps; each specification    *)
(* picks the step that its timeouts need.                                  *)
(***************************************************************************)
Advance(step, limit) ==
    /\ now + step <= limit
    /\ now' = now + step
    /\ UNCHANGED <<syncPlayerRankLimiter, userCache, guildMembers, queues, queueLocks, creatingGamesInGuild, matches, states,
                   voteUpdateQueues, buttonCooldowns, dodgeBans, processedInteractions,
                   nextInteraction, dbUsers, dbMatchStatus, dbVotes, h, hist>>

Tick(step) == Advance(step, MaxTicks * step)

TickCooldown == Tick(BUTTON_COOLDOWN)

(***************************************************************************)
(* queue_join / queue_leave (part_011:656-808).                            *)
(***************************************************************************)

\* The seen-set with its test left out.
NeverDuplicate(id) == FALSE

\* processedInteractions.has(interaction.id) (part_011:660).
Duplicate(id) == id \in processedInteractions

\* The listener on a queue button interaction with identifier id, up to the
\* await of deferReply (part_011:656-716).  An identifier in the seen-set is
\* dropped; a click inside the user's cooldown is answered and dropped.
QueueInteraction(s, id, kind, memberId, channelName) ==
    /\ h[s].pc = "idle"
    /\ IF Duplicate(id)
       THEN UNCHANGED <<processedInteractions, h>>
       ELSE /\ processedInteractions' = processedInteractions \cup {id}
            /\ IF /\ memberId \in DOMAIN buttonCooldowns
                  /\ now - buttonCooldowns[memberId].timestamp < BUTTON_COOLDOWN
               THEN h' = h
               ELSE h' = [h EXCEPT ![s] = [Idle EXCEPT !.pc = "defer", !.kind = kind,
                                                        !.user = memberId,
                                                        !.tier = channelName, !.t0 = now]]
    /\ UNCHANGED <<now, syncPlayerRankLimiter, userCache, guildMembers,
                   queues, queueLocks, creatingGamesInGuild, matches, states,
                   voteUpdateQueues, buttonCooldowns, dodgeBans, dbUsers, dbMatchStatus,
                   dbVotes>>

\* The gateway delivers a button click under a fresh identifier.
QueueClick(s, kind, memberId, channelName) ==
    /\ QueueInteraction(s, nextInteraction, kind, memberId, channelName)
    /\ nextInteraction' = nextInteraction + 1
    /\ UNCHANGED hist

\* The gateway delivers once more an interaction it has delivered before.
QueueRedelivery(s, id, kind, memberId, channelName) ==
    /\ id < nextInteraction
    /\ QueueInteraction(s, id, kind, memberId, channelName)
    /\ hist' = [hist EXCEPT !.redelivered = Append(@, id),
                            !.reprocessed = IF Duplicate(id) THEN @ ELSE @ \cup {id}]
    /\ UNCHANGED nextInteraction

\* The interval of part_011:648-650 has passed: the seen-set is emptied.
ClearProcessedInteractions ==
    /\ now' = (now \div PROCESSED_CLEAR_INTERVAL + 1) * PROCESSED_CLEAR_INTERVAL
    /\ now' <= MaxClears * PROCESSED_CLEAR_INTERVAL
    /\ processedInteractions' = {}
    /\ hist' = [hist EXCEPT !.clearedAt = nextInteraction, !.reprocessed = {}]
    /\ UNCHANGED <<syncPlayerRankLimiter, userCache, guildMembers, queues, queueLocks, creatingGamesInGuild, matches,
                   states, voteUpdateQueues, buttonCooldowns, dodgeBans, nextInteraction,
                   dbUsers, dbMatchStatus, dbVotes, h>>

\* The critical section of a join or a leave, entered with the membership lock
\* free: part_011:727-767 (join) and 773-782 (leave), up to the await of the reply.
CriticalSection(s, hasRole) ==
    LET memberId == h[s].user
        channelName == h[s].tier
        verdict == IF h[s].kind = "join" THEN JoinVerdict(memberId, channelName, hasRole)
                   ELSE IF memberId \in Range(queues[channelName]) THEN "left" ELSE "notin"
    IN /\ queueLocks' = [queueLocks EXCEPT ![channelName] = TRUE]
       /\ queues' = [queues EXCEPT ![channelName] =
                        IF verdict = "joined" THEN SetAdd(@, memberId)
                        ELSE IF verdict = "left" THEN SetDelete(@, memberId)
                        ELSE @]
       /\ dodgeBans' = IF h[s].kind = "join" /\ BanCheckReached(memberId, channelName, hasRole)
                       THEN dodgeBansAfterCheck(memberId) ELSE dodgeBans
       /\ h' = [h EXCEPT ![s].pc = "replying", ![s].reply = verdict, ![s].role = hasRole]

\* acquireQueueLock without the test of the flag.
AcquireQueueLockBlind(s, hasRole) == CriticalSection(s, hasRole)

\* acquireQueueLock (part_011:84-91): one poll of the flag.
AcquireQueueLock(s, hasRole) ==
    IF queueLocks[h[s].tier]
    THEN /\ h' = [h EXCEPT ![s].pc = "lockwait"]
         /\ UNCHANGED <<queues, queueLocks, dodgeBans>>
    ELSE CriticalSection(s, hasRole)

\* deferReply returned: set the cooldown (part_011:719) and go for the lock.
AfterDefer(s) ==
    /\ h[s].pc = "defer"
    /\ h[s].kind \in {"join", "leave"}
    /\ buttonCooldowns' = MapSet(buttonCooldowns, h[s].user,
                                 [timestamp |-> h[s].t0, createdAt |-> h[s].t0])
    /\ \E hasRole \in (IF QUEUE_ROLES[h[s].tier] THEN BOOLEAN ELSE {TRUE}) :
            AcquireQueueLock(s, hasRole)
    /\ UNCHANGED <<now, syncPlayerRankLimiter, userCache, guildMembers,
                   creatingGamesInGuild, matches, states, voteUpdateQueues,
                   processedInteractions, nextInteraction, dbUsers, dbMatchStatus, dbVotes, hist>>

\* The 10 ms timer of acquireQueueLock fired: poll again.
PollQueueLock(s) ==
    /\ h[s].pc = "lockwait"
    /\ \E hasRole \in (IF QUEUE_ROLES[h[s].tier] THEN BOOLEAN ELSE {TRUE}) :
            AcquireQueueLock(s, hasRole)
    /\ UNCHANGED <<now, syncPlayerRankLimiter, userCache, guildMembers,
                   creatingGamesInGuild, matches, states, voteUpdateQueues, buttonCooldowns,
                   processedInteractions, nextInteraction, dbUsers, dbMatchStatus, dbVotes, hist>>

\* The reply was sent: `finally` releases the membership lock (part_011:768-770,
\* 783-785); a rejected click returns, an accepted one calls updateQueueMessage.
AfterReply(s) ==
    /\ h[s].pc = "replying"
    /\ queueLocks' = [queueLocks EXCEPT ![h[s].tier] = FALSE]
    /\ h' = [h EXCEPT ![s] = IF h[s].reply \in {"joined", "left"}
                             THEN [@ EXCEPT !.pc = "updating"] ELSE Idle]
    /\ UNCHANGED <<now, syncPlayerRankLimiter, userCache, guildMembers,
                   queues, creatingGamesInGuild, matches, states, voteUpdateQueues,
                   buttonCooldowns, dodgeBans, processedInteractions, nextInteraction,
                   dbUsers, dbMatchStatus, dbVotes, hist>>

\* The drain of part_011:797-798: the first QUEUE_SIZE members in insertion order.
DrainedPlayers(q) == Slice(q, QUEUE_SIZE)
QueueAfterDrain(q) == SetDeleteAll(q, Range(DrainedPlayers(q)))

\* Holding the creation lock: the re-check and the drain (part_011:794-800), up to
\* the await inside updateQueueMessage; a failed re-check releases the lock.
RecheckAndDrain(s) ==
    LET channelName == h[s].tier
        q == queues[channelName]
    IN IF Len(q) >= QUEUE_SIZE
       THEN /\ creatingGamesInGuild' = [creatingGamesInGuild EXCEPT ![channelName] = TRUE]
            /\ queues' = [queues EXCEPT ![channelName] = QueueAfterDrain(q)]
            /\ h' = [h EXCEPT ![s].pc = "drained", ![s].players = DrainedPlayers(q)]
            /\ hist' = [hist EXCEPT !.drains = @ + 1]
       ELSE /\ creatingGamesInGuild' = [creatingGamesInGuild EXCEPT ![channelName] = FALSE]
            /\ queues' = queues
            /\ h' = [h EXCEPT ![s] = Idle]
            /\ hist' = hist

\* acquireGameCreationLock (part_011:100-107): one poll of the flag.
AcquireGameCreationLock(s) ==
    IF creatingGamesInGuild[h[s].tier]
    THEN /\ h' = [h EXCEPT ![s].pc = "gamelockwait"]
         /\ UNCHANGED <<queues, creatingGamesInGuild, hist>>
    ELSE RecheckAndDrain(s)

\* updateQueueMessage returned or threw (part_011:788-793).  It throws when the
\* queue message is not found and channel.send fails (part_011:188); the handler
\* then ends in the outer catch.  Otherwise the capacity trigger is evaluated.
AfterUpdate(s, threw) ==
    /\ h[s].pc = "updating"
    /\ IF threw
       THEN /\ h' = [h EXCEPT ![s] = Idle]
            /\ UNCHANGED <<queues, creatingGamesInGuild, hist>>
       ELSE IF Len(queues[h[s].tier]) >= QUEUE_SIZE
            THEN AcquireGameCreationLock(s)
            ELSE /\ h' = [h EXCEPT ![s] = Idle]
                 /\ UNCHANGED <<queues, creatingGamesInGuild, hist>>
    /\ UNCHANGED <<now, syncPlayerRankLimiter, userCache, guildMembers,
                   queueLocks, matches, states, voteUpdateQueues, buttonCooldowns, dodgeBans,
                   processedInteractions, nextInteraction, dbUsers, dbMatchStatus, dbVotes>>

\* The 50 ms timer of acquireGameCreationLock fired: poll again.
PollGameCreationLock(s) ==
    /\ h[s].pc = "gamelockwait"
    /\ AcquireGameCreationLock(s)
    /\ UNCHANGED <<now, syncPlayerRankLimiter, userCache, guildMembers,
                   queueLocks, matches, states, voteUpdateQueues, buttonCooldowns, dodgeBans,
                   processedInteractions, nextInteraction, dbUsers, dbMatchStatus, dbVotes>>

(***************************************************************************)
(* Match creation: the rest of the capacity trigger (part_011:799-805) and *)
(* createGameChannelForSix (part_011:293-369).                             *)
(***************************************************************************)
\* A handler that ends without running its unlock function.
KeepGameCreationLock(s) ==
    /\ UNCHANGED creatingGamesInGuild
    /\ h' = [h EXCEPT ![s] = Idle]

\* `finally { unlock(); }` of the capacity trigger (part_011:803-805).
ReleaseGameCreationLock(s) ==
    /\ creatingGamesInGuild' = [creatingGamesInGuild EXCEPT ![h[s].tier] = FALSE]
    /\ h' = [h EXCEPT ![s] = Idle]

\* updateQueueMessage after the drain returned or threw (part_011:799); a throw
\* leaves through `finally`, which releases the creation lock.
AfterDrainUpdate(s, threw) ==
    /\ h[s].pc = "drained"
    /\ IF threw
       THEN ReleaseGameCreationLock(s)
       ELSE /\ h' = [h EXCEPT ![s].pc = "creating"]
            /\ UNCHANGED creatingGamesInGuild
    /\ UNCHANGED <<now, syncPlayerRankLimiter, userCache, guildMembers,
                   queues, queueLocks, matches, states, voteUpdateQueues, buttonCooldowns,
                   dodgeBans, processedInteractions, nextInteraction, dbUsers, dbMatchStatus,
                   dbVotes, hist>>

FreshChannel == CHOOSE c \in Channels \ DOMAIN states : \A d \in Channels \ DOMAIN states : c <= d

\* guild.channels.create and User.findAll returned (part_011:294-355): the
\* captains are chosen and the state object is built, not yet registered.
\* A rejected call, or fewer than two profiles (sortedByPoints[1] is undefined),
\* throws; `finally` releases the creation lock.
BuildMatchState(s, threw) ==
    /\ h[s].pc = "creating"
    /\ LET rows == sortedByPoints(ProfileRows(h[s].players))
       IN IF threw \/ Len(rows) < 2
          THEN /\ ReleaseGameCreationLock(s)
               /\ UNCHANGED states
          ELSE /\ Channels \ DOMAIN states # {}
               /\ states' = MapSet(states, FreshChannel,
                                   NewMatchState(h[s].players, rows[2], rows[1]))
               /\ h' = [h EXCEPT ![s].pc = "sending", ![s].chan = FreshChannel]
               /\ UNCHANGED creatingGamesInGuild
    /\ UNCHANGED <<now, syncPlayerRankLimiter, userCache, guildMembers,
                   queues, queueLocks, matches, voteUpdateQueues, buttonCooldowns,
                   dodgeBans, processedInteractions, nextInteraction, dbUsers, dbMatchStatus,
                   dbVotes, hist>>

\* textChannel.send of the draft board returned (part_011:357-359): the state is
\* put in the registry.  If it threw, the state object is dropped.
RegisterMatch(s, threw) ==
    /\ h[s].pc = "sending"
    /\ IF threw
       THEN /\ ReleaseGameCreationLock(s)
            /\ states' = MapDelete(states, h[s].chan)
            /\ UNCHANGED <<matches, hist>>
       ELSE /\ matches' = matches \cup {h[s].chan}
            /\ h' = [h EXCEPT ![s].pc = "persisting"]
            /\ hist' = [hist EXCEPT !.registered = @ + 1]
            /\ UNCHANGED <<creatingGamesInGuild, states>>
    /\ UNCHANGED <<now, syncPlayerRankLimiter, userCache, guildMembers,
                   queues, queueLocks, voteUpdateQueues, buttonCooldowns, dodgeBans,
                   processedInteractions, nextInteraction, dbUsers, dbMatchStatus, dbVotes>>

\* persistMatchSetup (part_011:196-213): Match.create and the two Team.create
\* returned and the ids are stored in the state; an error is caught and leaves
\* matchId null.  The match id is the channel's number.
persistMatchSetup(s, threw) ==
    /\ h[s].pc = "persisting"
    /\ IF threw
       THEN UNCHANGED <<states, dbMatchStatus>>
       ELSE /\ states' = [states EXCEPT ![h[s].chan].matchId = h[s].chan]
            /\ dbMatchStatus' = MapSet(dbMatchStatus, h[s].chan, "draft")
    /\ h' = [h EXCEPT ![s].pc = "pinging"]
    /\ UNCHANGED <<now, syncPlayerRankLimiter, userCache, guildMembers,
                   queues, queueLocks, creatingGamesInGuild, matches, voteUpdateQueues,
                   buttonCooldowns, dodgeBans, processedInteractions, nextInteraction,
                   dbUsers, dbVotes, hist>>

\* The MatchPlayer rows and the ping are done (part_011:204-209, 362-368);
\* createGameChannelForSix returns and `finally` releases the creation lock.
FinishCreate(s) ==
    /\ h[s].pc = "pinging"
    /\ ReleaseGameCreationLock(s)
    /\ UNCHANGED <<now, syncPlayerRankLimiter, userCache, guildMembers,
                   queues, queueLocks, matches, states, voteUpdateQueues, buttonCooldowns,
                   dodgeBans, processedInteractions, nextInteraction, dbUsers, dbMatchStatus,
                   dbVotes, hist>>

(***************************************************************************)
(* Interaction intake shared by the match buttons (part_011:656-686): the  *)
(* dedupe set, then the handler of the button.                             *)
(***************************************************************************)
Deliver ==
    /\ nextInteraction \notin processedInteractions
    /\ processedInteractions' = processedInteractions \cup {nextInteraction}
    /\ nextInteraction' = nextInteraction + 1

(***************************************************************************)
(* pick:<channel>:<player> (part_011:810-869).                             *)
(***************************************************************************)

\* The click, up to the await of deferReply; with no state registered for the
\* channel the click is answered "Draft not active here." and dropped.
PickClick(s, channelId, pickerId, pickedId) ==
    /\ h[s].pc = "idle"
    /\ Deliver
    /\ h' = IF channelId \in matches
            THEN [h EXCEPT ![s] = [Idle EXCEPT !.pc = "pickdefer", !.kind = "pick",
                                               !.user = pickerId, !.chan = channelId,
                                               !.pick = pickedId]]
            ELSE h
    /\ UNCHANGED <<now, syncPlayerRankLimiter, userCache, guildMembers,
                   queues, queueLocks, creatingGamesInGuild, matches, states,
                   voteUpdateQueues, buttonCooldowns, dodgeBans, dbUsers, dbMatchStatus,
                   dbVotes, hist>>

\* The guard of a pick left out.
PickAllowedAlways(state, pickerId, pickedId) == TRUE

\* The guard of part_011:822-834 on a state object.
PickAllowed(state, pickerId, pickedId) ==
    /\ ~(state.phase = "A1" /\ pickerId # state.captainA)
    /\ ~(state.phase \in {"B1", "B2"} /\ pickerId # state.captainB)
    /\ pickedId \in Range(state.remaining)

\* part_011:836-846: the pick leaves "remaining" and joins the team of the phase.
AddToTeam(state, pickedId) ==
    [state EXCEPT !.remaining = SetDelete(@, pickedId),
                  !.teamA = IF state.phase = "A1" THEN @ \cup {pickedId} ELSE @,
                  !.teamB = IF state.phase \in {"B1", "B2"} THEN @ \cup {pickedId} ELSE @]

\* part_011:853-854: the draft is closed.
CloseDraft(state) == [state EXCEPT !.remaining = <<>>, !.phase = "BAN_A"]

\* What follows `await updateDbOnPick` in the branch the handler took
\* (part_011:840, 844, 848-854).  In the B2 branch a player left in "remaining"
\* goes to team A and the handler awaits MatchPlayer.update before it closes
\* the draft; with nobody left the draft is closed at once.  Outside the three
\* draft phases no branch applies.
AfterPickWrite(s, branch, state) ==
    IF branch = "A1"
    THEN /\ states' = [states EXCEPT ![h[s].chan] = [state EXCEPT !.phase = "B1"]]
         /\ h' = [h EXCEPT ![s] = Idle]
    ELSE IF branch = "B1"
    THEN /\ states' = [states EXCEPT ![h[s].chan] = [state EXCEPT !.phase = "B2"]]
         /\ h' = [h EXCEPT ![s] = Idle]
    ELSE IF branch = "B2" /\ state.remaining # <<>>
    THEN /\ states' = [states EXCEPT ![h[s].chan] =
                          [state EXCEPT !.teamA = @ \cup {Head(state.remaining)}]]
         /\ h' = [h EXCEPT ![s].pc = "lastwrite", ![s].branch = "B2"]
    ELSE IF branch = "B2"
    THEN /\ states' = [states EXCEPT ![h[s].chan] = CloseDraft(state)]
         /\ h' = [h EXCEPT ![s] = Idle]
    ELSE /\ states' = [states EXCEPT ![h[s].chan] = state]
         /\ h' = [h EXCEPT ![s] = Idle]

\* deferReply returned: the guard, and for an accepted pick the mutation up to
\* the await inside updateDbOnPick.  updateDbOnPick returns without I/O while
\* state.matchId is null (part_011:439), and then the handler runs on.
PickGuard(s) ==
    /\ h[s].pc = "pickdefer"
    /\ LET state == states[h[s].chan]
           picked == AddToTeam(state, h[s].pick)
       IN IF ~PickAllowed(state, h[s].user, h[s].pick)
          THEN /\ h' = [h EXCEPT ![s] = Idle]
               /\ UNCHANGED <<states, hist>>
          ELSE /\ hist' = [hist EXCEPT !.picks = Append(@, state.phase)]
               /\ IF state.matchId = NoMatchId
                  THEN AfterPickWrite(s, state.phase, picked)
                  ELSE /\ states' = [states EXCEPT ![h[s].chan] = picked]
                       /\ h' = [h EXCEPT ![s].pc = "pickwrite", ![s].branch = state.phase]
    /\ UNCHANGED <<now, syncPlayerRankLimiter, userCache, guildMembers,
                   queues, queueLocks, creatingGamesInGuild, matches, voteUpdateQueues,
                   buttonCooldowns, dodgeBans, processedInteractions, nextInteraction,
                   dbUsers, dbMatchStatus, dbVotes>>

\* MatchPlayer.update of updateDbOnPick returned (its errors are caught).
PickWritten(s) ==
    /\ h[s].pc = "pickwrite"
    /\ AfterPickWrite(s, h[s].branch, states[h[s].chan])
    /\ UNCHANGED <<now, syncPlayerRankLimiter, userCache, guildMembers,
                   queues, queueLocks, creatingGamesInGuild, matches, voteUpdateQueues,
                   buttonCooldowns, dodgeBans, processedInteractions, nextInteraction,
                   dbUsers, dbMatchStatus, dbVotes, hist>>

\* MatchPlayer.update for the auto-assigned player returned or threw
\* (part_011:851): it is not caught here, so a throw ends the handler in the
\* outer catch with the draft left open.
LastWritten(s, threw) ==
    /\ h[s].pc = "lastwrite"
    /\ states' = IF threw THEN states
                 ELSE [states EXCEPT ![h[s].chan] = CloseDraft(@)]
    /\ h' = [h EXCEPT ![s] = Idle]
    /\ UNCHANGED <<now, syncPlayerRankLimiter, userCache, guildMembers,
                   queues, queueLocks, creatingGamesInGuild, matches, voteUpdateQueues,
                   buttonCooldowns, dodgeBans, processedInteractions, nextInteraction,
                   dbUsers, dbMatchStatus, dbVotes, hist>>

(***************************************************************************)
(* ban:<channel>:<map> (part_011:871-937).                                 *)
(***************************************************************************)

\* The click, up to the await of deferReply: without a state, or outside the
\* ban phases, it is answered "Bans not active now." and dropped.
BanClick(s, channelId, bannerId, mapName) ==
    /\ h[s].pc = "idle"
    /\ Deliver
    /\ h' = IF channelId \in matches /\ states[channelId].phase \in {"BAN_A", "BAN_B"}
            THEN [h EXCEPT ![s] = [Idle EXCEPT !.pc = "bandefer", !.kind = "ban",
                                               !.user = bannerId, !.chan = channelId,
                                               !.map = mapName]]
            ELSE h
    /\ UNCHANGED <<now, syncPlayerRankLimiter, userCache, guildMembers,
                   queues, queueLocks, creatingGamesInGuild, matches, states,
                   voteUpdateQueues, buttonCooldowns, dodgeBans, dbUsers, dbMatchStatus,
                   dbVotes, hist>>

\* The guard of part_011:884-895, evaluated after deferReply on the phase of then.
BanAllowed(state, bannerId, mapName) ==
    /\ ~(state.phase = "BAN_A" /\ bannerId # state.captainA)
    /\ ~(state.phase = "BAN_B" /\ bannerId # state.captainB)
    /\ mapName \in Range(state.availableMaps)

\* part_011:896-904; `selected` is the map Math.random picks.
ApplyBan(state, mapName, selected) ==
    LET left == SetDelete(state.availableMaps, mapName)
        banned == Append(state.bannedMaps, mapName)
    IN IF state.phase = "BAN_A"
       THEN [state EXCEPT !.availableMaps = left, !.bannedMaps = banned, !.phase = "BAN_B"]
       ELSE [state EXCEPT !.availableMaps = left, !.bannedMaps = banned,
                          !.selectedMap = selected, !.phase = "VOTE",
                          !.voteStartTime = now]

\* availableMaps[Math.floor(Math.random() * length)]: any index of the list.
RandomMaps(state, mapName) ==
    IF state.phase = "BAN_A" THEN {state.selectedMap}
    ELSE Range(SetDelete(state.availableMaps, mapName))

BanGuard(s) ==
    /\ h[s].pc = "bandefer"
    /\ LET state == states[h[s].chan]
       IN IF ~BanAllowed(state, h[s].user, h[s].map)
          THEN UNCHANGED <<states, hist>>
          ELSE /\ \E selected \in RandomMaps(state, h[s].map) :
                     states' = [states EXCEPT ![h[s].chan] = ApplyBan(state, h[s].map, selected)]
               /\ hist' = [hist EXCEPT !.bans = Append(@, state.phase)]
    /\ h' = [h EXCEPT ![s] = Idle]
    /\ UNCHANGED <<now, syncPlayerRankLimiter, userCache, guildMembers,
                   queues, queueLocks, creatingGamesInGuild, matches, voteUpdateQueues,
                   buttonCooldowns, dodgeBans, processedInteractions, nextInteraction,
                   dbUsers, dbMatchStatus, dbVotes>>

(***************************************************************************)
(* vote:<channel>:<team> (part_011:939-977) and tryFinalize (535-644).     *)
(* The store answers every call; a call takes effect when it returns.      *)
(***************************************************************************)

\* The click, up to the await of deferReply: without a state, or before the
\* match is persisted, it is answered "Voting not available." and dropped.
VoteClick(s, channelId, voterId, teamKey) ==
    /\ h[s].pc = "idle"
    /\ Deliver
    /\ h' = IF channelId \in matches /\ states[channelId].matchId # NoMatchId
            THEN [h EXCEPT ![s] = [Idle EXCEPT !.pc = "votedefer", !.kind = "vote",
                                               !.user = voterId, !.chan = channelId,
                                               !.team = teamKey]]
            ELSE h
    /\ UNCHANGED <<now, syncPlayerRankLimiter, userCache, guildMembers,
                   queues, queueLocks, creatingGamesInGuild, matches, states,
                   voteUpdateQueues, buttonCooldowns, dodgeBans, dbUsers, dbMatchStatus,
                   dbVotes, hist>>

\* deferReply returned: only players of the match go on to Vote.findOne.
VoteDeferred(s) ==
    /\ h[s].pc = "votedefer"
    /\ h' = [h EXCEPT ![s] = IF h[s].user \in states[h[s].chan].players
                             THEN [@ EXCEPT !.pc = "votefind"] ELSE Idle]
    /\ UNCHANGED <<now, syncPlayerRankLimiter, userCache, guildMembers,
                   queues, queueLocks, creatingGamesInGuild, matches, states,
                   voteUpdateQueues, buttonCooldowns, dodgeBans, processedInteractions,
                   nextInteraction, dbUsers, dbMatchStatus, dbVotes, hist>>

\* The rows of a voter in a match, and the voters and the row count of a team.
VoteRows(matchId, voterId) ==
    {i \in 1..Len(dbVotes) : dbVotes[i].matchId = matchId /\ dbVotes[i].voter = voterId}
VotersFor(votes, matchId, teamKey) ==
    {votes[i].voter : i \in {j \in 1..Len(votes) : votes[j].matchId = matchId /\ votes[j].team = teamKey}}
CountFor(votes, matchId, teamKey) ==
    Cardinality({i \in 1..Len(votes) : votes[i].matchId = matchId /\ votes[i].team = teamKey})

\* Vote.findOne returned (part_011:957): a row of the voter, if there is one.
VoteFound(s) ==
    /\ h[s].pc = "votefind"
    /\ LET rows == VoteRows(states[h[s].chan].matchId, h[s].user)
       IN IF rows = {}
          THEN h' = [h EXCEPT ![s].pc = "votecreate"]
          ELSE \E i \in rows : h' = [h EXCEPT ![s].pc = "voteupdate", ![s].row = i]
    /\ UNCHANGED <<now, syncPlayerRankLimiter, userCache, guildMembers,
                   queues, queueLocks, creatingGamesInGuild, matches, states,
                   voteUpdateQueues, buttonCooldowns, dodgeBans, processedInteractions,
                   nextInteraction, dbUsers, dbMatchStatus, dbVotes, hist>>

\* The teams that have had VOTE_THRESHOLD voters.
ReachedIn(votes, matchId) ==
    {t \in {"A", "B"} : Cardinality(VotersFor(votes, matchId, t)) >= VOTE_THRESHOLD}

\* existing.update or Vote.create returned (part_011:959, 962).
VoteWritten(s) ==
    /\ h[s].pc \in {"votecreate", "voteupdate"}
    /\ dbVotes' = IF h[s].pc = "votecreate"
                  THEN Append(dbVotes, [matchId |-> states[h[s].chan].matchId,
                                        voter |-> h[s].user, team |-> h[s].team])
                  ELSE [dbVotes EXCEPT ![h[s].row].team = h[s].team]
    /\ hist' = [hist EXCEPT !.reached = @ \cup ReachedIn(dbVotes', states[h[s].chan].matchId)]
    /\ h' = [h EXCEPT ![s].pc = "votereply"]
    /\ UNCHANGED <<now, syncPlayerRankLimiter, userCache, guildMembers,
                   queues, queueLocks, creatingGamesInGuild, matches, states,
                   voteUpdateQueues, buttonCooldowns, dodgeBans, processedInteractions,
                   nextInteraction, dbUsers, dbMatchStatus>>

\* tryFinalize returned false: queueVoteUpdate (part_011:524-533, 974).
NotFinalized(s) ==
    LET matchId == states[h[s].chan].matchId
    IN /\ voteUpdateQueues' = IF matchId \in voteUpdateQueues.keys THEN voteUpdateQueues
                              ELSE [keys |-> voteUpdateQueues.keys \cup {matchId},
                                    timers |-> Append(voteUpdateQueues.timers, matchId)]
       /\ h' = [h EXCEPT ![s] = Idle]
       /\ UNCHANGED matches

\* tryFinalize returned true: the match leaves the registry (part_011:966-968).
Finalized(s) ==
    /\ matches' = matches \ {h[s].chan}
    /\ voteUpdateQueues' = [voteUpdateQueues EXCEPT !.keys = @ \ {states[h[s].chan].matchId}]
    /\ h' = [h EXCEPT ![s] = Idle]

\* The reply was sent; tryFinalize up to the await of Vote.findAll (part_011:537-540).
TryFinalizeEnter(s) ==
    /\ h[s].pc = "votereply"
    /\ LET state == states[h[s].chan]
       IN IF state.matchId = NoMatchId THEN NotFinalized(s)
          ELSE IF state.finalized THEN Finalized(s)
          ELSE /\ h' = [h EXCEPT ![s].pc = "findall"]
               /\ UNCHANGED <<matches, voteUpdateQueues>>
    /\ UNCHANGED <<now, syncPlayerRankLimiter, userCache, guildMembers,
                   queues, queueLocks, creatingGamesInGuild, states, buttonCooldowns,
                   dodgeBans, processedInteractions, nextInteraction, dbUsers, dbMatchStatus,
                   dbVotes, hist>>

\* The rank tiers (part_011:37-45, 233-240).
\* The `max: Infinity` of the last tier: every number is at most Infinity.
Infinity == 0 - 1
AtMost(points, max) == max = Infinity \/ points <= max

RANK_SYSTEM ==
    << [name |-> "Bronze",     min |-> 0,    max |-> 1250],
       [name |-> "Silver",     min |-> 1251, max |-> 1500],
       [name |-> "Gold",       min |-> 1501, max |-> 1750],
       [name |-> "Platinium",  min |-> 1751, max |-> 2000],
       [name |-> "Diamond",    min |-> 2001, max |-> 2250],
       [name |-> "Supersonic", min |-> 2251, max |-> Infinity] >>

\* The loop of getRankByPoints from entry i of RANK_SYSTEM on, with its fallback.
RECURSIVE rankFrom(_, _)
rankFrom(points, i) ==
    IF i > Len(RANK_SYSTEM) THEN "Bronze"
    ELSE IF points >= RANK_SYSTEM[i].min /\ AtMost(points, RANK_SYSTEM[i].max)
         THEN RANK_SYSTEM[i].name
         ELSE rankFrom(points, i + 1)

\* getRankByPoints with every boundary one point lower.
getRankByPointsShifted(points) == rankFrom(points + 1, 1)

getRankByPoints(points) == rankFrom(points, 1)

\* getCachedUser serves the cached object (part_010:12-17).
Cached(discordId) ==
    discordId \in DOMAIN userCache /\ now - userCache[discordId].timestamp < CACHE_TTL

\* The `points` of the object getCachedUser(discordId) returns, for a user with
\* a row: the cached object's, or the row's as User.findOne reads it now.
getCachedUser(discordId) ==
    IF Cached(discordId) THEN userCache[discordId].points ELSE dbUsers[discordId].points

\* userCache after getCachedUser was called for every id of `ids`
\* (part_010:20-28): the rows that were fetched are stored with the time of now.
CacheAfterReads(ids) ==
    [u \in DOMAIN userCache \cup (ids \cap DOMAIN dbUsers) |->
        IF u \in ids /\ u \in DOMAIN dbUsers /\ ~Cached(u)
        THEN [points |-> dbUsers[u].points, timestamp |-> now]
        ELSE userCache[u]]

\* invalidateUserCache(discordIds) (part_010:73-77).
invalidateUserCache(discordIds) == [u \in DOMAIN userCache \ discordIds |-> userCache[u]]

\* The tier each participant with a row is synced to (part_011:576-583):
\* syncPlayerRank is called with the points of the object getCachedUser returns.
SyncedRanks(ids) ==
    [u \in DOMAIN hist.synced \cup (ids \cap DOMAIN dbUsers) |->
        IF u \in ids /\ u \in DOMAIN dbUsers
        THEN getRankByPoints(getCachedUser(u))
        ELSE hist.synced[u]]

\* part_011:543.
winnerKey(countA, countB) ==
    IF countA >= VOTE_THRESHOLD THEN "A" ELSE IF countB >= VOTE_THRESHOLD THEN "B" ELSE ""

\* A JS Set of ids as a list.
SetToSeq(S) ==
    LET F[T \in SUBSET S] ==
            IF T = {} THEN <<>>
            ELSE LET m == CHOOSE x \in T : \A y \in T : x <= y IN <<m>> \o F[T \ {m}]
    IN F[S]

\* Vote.findAll returned (part_011:540-555): the rows are counted; with a winner
\* the teams are copied, the points of every participant are read through the
\* user cache (beforeStats; the reads are taken as one step) and the handler
\* goes on to Match.findByPk.
CountVotes(s) ==
    /\ h[s].pc = "findall"
    /\ LET state == states[h[s].chan]
           key == winnerKey(CountFor(dbVotes, state.matchId, "A"),
                            CountFor(dbVotes, state.matchId, "B"))
       IN IF key = "" THEN NotFinalized(s) /\ UNCHANGED userCache
          ELSE /\ h' = [h EXCEPT ![s].pc = "findbypk", ![s].winner = key,
                                 ![s].winners = SetToSeq(IF key = "A" THEN state.teamA ELSE state.teamB),
                                 ![s].losers = SetToSeq(IF key = "A" THEN state.teamB ELSE state.teamA)]
               /\ userCache' = CacheAfterReads(state.teamA \cup state.teamB)
               /\ UNCHANGED <<matches, voteUpdateQueues>>
    /\ UNCHANGED <<now, syncPlayerRankLimiter, guildMembers,
                   queues, queueLocks, creatingGamesInGuild, states, buttonCooldowns,
                   dodgeBans, processedInteractions, nextInteraction, dbUsers, dbMatchStatus,
                   dbVotes, hist>>

\* Match.findByPk returned (part_011:555-559): a match already "done" is only
\* flagged; otherwise the handler goes on to Match.update.
StatusRead(s) ==
    /\ h[s].pc = "findbypk"
    /\ LET matchId == states[h[s].chan].matchId
       IN IF matchId \in DOMAIN dbMatchStatus /\ dbMatchStatus[matchId] = "done"
          THEN /\ states' = [states EXCEPT ![h[s].chan].finalized = TRUE]
               /\ h' = [h EXCEPT ![s].pc = "posting"]
          ELSE /\ h' = [h EXCEPT ![s].pc = "markdone"]
               /\ UNCHANGED states
    /\ UNCHANGED <<now, syncPlayerRankLimiter, userCache, guildMembers,
                   queues, queueLocks, creatingGamesInGuild, matches, voteUpdateQueues,
                   buttonCooldowns, dodgeBans, processedInteractions, nextInteraction,
                   dbUsers, dbMatchStatus, dbVotes, hist>>

\* Match.update returned (part_011:559): the increments start.
MarkedDone(s) ==
    /\ h[s].pc = "markdone"
    /\ dbMatchStatus' = MapSet(dbMatchStatus, states[h[s].chan].matchId, "done")
    /\ h' = [h EXCEPT ![s].pc = "increment", ![s].idx = 1]
    /\ UNCHANGED <<now, syncPlayerRankLimiter, userCache, guildMembers,
                   queues, queueLocks, creatingGamesInGuild, matches, states,
                   voteUpdateQueues, buttonCooldowns, dodgeBans, processedInteractions,
                   nextInteraction, dbUsers, dbVotes, hist>>

\* The two User.increment calls for one player (part_011:561-572).
Credit(row, won) ==
    IF won THEN [row EXCEPT !.wins = @ + 1, !.points = @ + POINTS_WIN]
    ELSE [row EXCEPT !.losses = @ + 1, !.points = @ - POINTS_LOSS]

\* The increments of the next player returned; the increments of one player are
\* taken as one step of the store.
Increment(s) ==
    /\ h[s].pc = "increment"
    /\ LET all == h[s].winners \o h[s].losers
           uid == all[h[s].idx]
       IN /\ dbUsers' = IF uid \in DOMAIN dbUsers
                        THEN [dbUsers EXCEPT ![uid] = Credit(@, h[s].idx <= Len(h[s].winners))]
                        ELSE dbUsers
          /\ h' = IF h[s].idx < Len(all) THEN [h EXCEPT ![s].idx = @ + 1]
                  ELSE [h EXCEPT ![s].pc = "ranksync"]
    /\ UNCHANGED <<now, syncPlayerRankLimiter, userCache, guildMembers,
                   queues, queueLocks, creatingGamesInGuild, matches, states,
                   voteUpdateQueues, buttonCooldowns, dodgeBans, processedInteractions,
                   nextInteraction, dbMatchStatus, dbVotes, hist>>

\* The rank roles are synced (part_011:574-588; the two loops are taken as one
\* step, the limiter's log is left aside): every participant is synced to the
\* tier of the points getCachedUser returns, the participants leave the user
\* cache and the state is flagged finalized.
RanksSynced(s) ==
    /\ h[s].pc = "ranksync"
    /\ hist' = [hist EXCEPT !.synced = SyncedRanks(Range(h[s].winners \o h[s].losers))]
    /\ userCache' = invalidateUserCache(Range(h[s].winners \o h[s].losers))
    /\ states' = [states EXCEPT ![h[s].chan].finalized = TRUE]
    /\ h' = [h EXCEPT ![s].pc = "posting"]
    /\ UNCHANGED <<now, syncPlayerRankLimiter, guildMembers,
                   queues, queueLocks, creatingGamesInGuild, matches, voteUpdateQueues,
                   buttonCooldowns, dodgeBans, processedInteractions, nextInteraction,
                   dbUsers, dbMatchStatus, dbVotes>>

\* The results are posted (part_011:591-639) and tryFinalize returns true.
Posted(s) ==
    /\ h[s].pc = "posting"
    /\ Finalized(s)
    /\ UNCHANGED <<now, syncPlayerRankLimiter, userCache, guildMembers,
                   queues, queueLocks, creatingGamesInGuild, states, buttonCooldowns,
                   dodgeBans, processedInteractions, nextInteraction, dbUsers, dbMatchStatus,
                   dbVotes, hist>>

\* The 500 ms timer of queueVoteUpdate ran and updateVoteMessage returned
\* (part_011:529-532): the key is deleted.  The refresh is taken as one step
\* here; what the board shows is followed by the steps below.
VoteMessageUpdated(matchId) ==
    /\ matchId \in Range(voteUpdateQueues.timers)
    /\ voteUpdateQueues' =
          LET first == CHOOSE i \in 1..Len(voteUpdateQueues.timers) :
                          /\ voteUpdateQueues.timers[i] = matchId
                          /\ \A j \in 1..(i - 1) : voteUpdateQueues.timers[j] # matchId
          IN [keys |-> voteUpdateQueues.keys \ {matchId},
              timers |-> SubSeq(voteUpdateQueues.timers, 1, first - 1)
                         \o SubSeq(voteUpdateQueues.timers, first + 1, Len(voteUpdateQueues.timers))]
    /\ UNCHANGED <<now, syncPlayerRankLimiter, userCache, guildMembers,
                   queues, queueLocks, creatingGamesInGuild, matches, states,
                   buttonCooldowns, dodgeBans, processedInteractions, nextInteraction,
                   dbUsers, dbMatchStatus, dbVotes, h, hist>>

\* The refresh of the vote board step by step.  The 500 ms timer of
\* queueVoteUpdate fires (part_011:529): updateVoteMessage runs up to the await
\* of Vote.findAll (part_011:513).
RefreshTimerFired(s, matchId) ==
    /\ h[s].pc = "idle"
    /\ matchId \in Range(voteUpdateQueues.timers)
    /\ voteUpdateQueues' =
          LET first == CHOOSE i \in 1..Len(voteUpdateQueues.timers) :
                          /\ voteUpdateQueues.timers[i] = matchId
                          /\ \A j \in 1..(i - 1) : voteUpdateQueues.timers[j] # matchId
          IN [voteUpdateQueues EXCEPT !.timers =
                 SubSeq(@, 1, first - 1) \o SubSeq(@, first + 1, Len(@))]
    /\ h' = [h EXCEPT ![s] = [Idle EXCEPT !.pc = "refreshfind", !.kind = "refresh", !.row = matchId]]
    /\ UNCHANGED <<now, syncPlayerRankLimiter, userCache, guildMembers,
                   queues, queueLocks, creatingGamesInGuild, matches, states,
                   buttonCooldowns, dodgeBans, processedInteractions, nextInteraction,
                   dbUsers, dbMatchStatus, dbVotes, hist>>

\* The votes of a match as the board lists them: who voted for which team.
VotesOf(matchId) ==
    {[voter |-> dbVotes[i].voter, team |-> dbVotes[i].team] :
        i \in {j \in 1..Len(dbVotes) : dbVotes[j].matchId = matchId}}

\* Vote.findAll returned (part_011:513-517): the embed is built from the rows
\* read now, and the message is fetched and edited.
RefreshRead(s) ==
    /\ h[s].pc = "refreshfind"
    /\ h' = [h EXCEPT ![s].pc = "refreshedit", ![s].votes = VotesOf(h[s].row)]
    /\ UNCHANGED <<now, syncPlayerRankLimiter, userCache, guildMembers,
                   queues, queueLocks, creatingGamesInGuild, matches, states, voteUpdateQueues,
                   buttonCooldowns, dodgeBans, processedInteractions, nextInteraction,
                   dbUsers, dbMatchStatus, dbVotes, hist>>

\* msg.edit returned (part_011:518, 530-531): the board shows the votes that
\* were read, and the throttle flag of the match is deleted.
RefreshEdited(s) ==
    /\ h[s].pc = "refreshedit"
    /\ hist' = [hist EXCEPT !.shown = MapSet(@, h[s].row, h[s].votes)]
    /\ voteUpdateQueues' = [voteUpdateQueues EXCEPT !.keys = @ \ {h[s].row}]
    /\ h' = [h EXCEPT ![s] = Idle]
    /\ UNCHANGED <<now, syncPlayerRankLimiter, userCache, guildMembers,
                   queues, queueLocks, creatingGamesInGuild, matches, states,
                   buttonCooldowns, dodgeBans, processedInteractions, nextInteraction,
                   dbUsers, dbMatchStatus, dbVotes>>

(***************************************************************************)
(* Queue bans: /ban-player and /unban-player (part_003:21-157), the forfeit *)
(* command /dodge (queue.js:980-1032) and the periodic cleanup             *)
(* (utils/memory-cleanup.js:19-45).                                        *)
(***************************************************************************)

\* The duration of /ban-player (part_003:42-48) from the number and the unit
\* that the pattern ^(\d+)(m|h|j|d)$ extracts.
ParseDuration(value, unit) ==
    IF unit = "m" THEN value * 60 * 1000
    ELSE IF unit = "h" THEN value * 60 * 60 * 1000
    ELSE IF unit \in {"j", "d"} THEN value * 24 * 60 * 60 * 1000
    ELSE 0

BanEntry(durationMs) == [timestamp |-> now + durationMs, createdAt |-> now]

\* /ban-player up to dodgeBans.set; what follows only posts messages.
BanPlayer(targetId, value, unit, isAdmin) ==
    /\ IF isAdmin
       THEN /\ dodgeBans' = MapSet(dodgeBans, targetId, BanEntry(ParseDuration(value, unit)))
            /\ hist' = [hist EXCEPT !.installed =
                           MapSet(@, targetId, [T |-> now, D |-> ParseDuration(value, unit)])]
       ELSE UNCHANGED <<dodgeBans, hist>>
    /\ UNCHANGED <<now, syncPlayerRankLimiter, userCache, guildMembers,
                   queues, queueLocks, creatingGamesInGuild, matches, states,
                   voteUpdateQueues, buttonCooldowns, processedInteractions, nextInteraction,
                   dbUsers, dbMatchStatus, dbVotes, h>>

\* /unban-player up to dodgeBans.delete.
UnbanPlayer(targetId, isAdmin) ==
    /\ IF isAdmin /\ targetId \in DOMAIN dodgeBans
       THEN /\ dodgeBans' = MapDelete(dodgeBans, targetId)
            /\ hist' = [hist EXCEPT !.installed = MapDelete(@, targetId)]
       ELSE UNCHANGED <<dodgeBans, hist>>
    /\ UNCHANGED <<now, syncPlayerRankLimiter, userCache, guildMembers,
                   queues, queueLocks, creatingGamesInGuild, matches, states,
                   voteUpdateQueues, buttonCooldowns, processedInteractions, nextInteraction,
                   dbUsers, dbMatchStatus, dbVotes, h>>

\* /reset-match for a channel (part_003:75-96): a member who is no admin, or a
\* channel without a registered match, is answered; for a persisted match the
\* handler awaits the store write of the status "cancelled", otherwise it
\* deletes the registry entry and the throttle flag at once.
ResetMatch(s, channelId, isAdmin) ==
    /\ h[s].pc = "idle"
    /\ IF isAdmin /\ channelId \in matches
       THEN IF states[channelId].matchId # NoMatchId
            THEN /\ h' = [h EXCEPT ![s] = [Idle EXCEPT !.pc = "resetwrite", !.kind = "reset",
                                                      !.chan = channelId]]
                 /\ UNCHANGED <<matches, voteUpdateQueues>>
            ELSE /\ matches' = matches \ {channelId}
                 /\ voteUpdateQueues' = [voteUpdateQueues EXCEPT !.keys = @ \ {NoMatchId}]
                 /\ UNCHANGED h
       ELSE UNCHANGED <<matches, voteUpdateQueues, h>>
    /\ UNCHANGED <<now, syncPlayerRankLimiter, userCache, guildMembers,
                   queues, queueLocks, creatingGamesInGuild, states, buttonCooldowns,
                   dodgeBans, processedInteractions, nextInteraction, dbUsers, dbMatchStatus,
                   dbVotes, hist>>

\* Match.update of /reset-match returned (part_003:95-101): the match is
\* "cancelled" in the store, and the registry entry and the throttle flag of
\* the state read at the start are deleted.
ResetWritten(s) ==
    /\ h[s].pc = "resetwrite"
    /\ dbMatchStatus' = MapSet(dbMatchStatus, states[h[s].chan].matchId, "cancelled")
    /\ matches' = matches \ {h[s].chan}
    /\ voteUpdateQueues' = [voteUpdateQueues EXCEPT !.keys = @ \ {states[h[s].chan].matchId}]
    /\ h' = [h EXCEPT ![s] = Idle]
    /\ UNCHANGED <<now, syncPlayerRankLimiter, userCache, guildMembers,
                   queues, queueLocks, creatingGamesInGuild, states, buttonCooldowns,
                   dodgeBans, processedInteractions, nextInteraction, dbUsers, dbVotes, hist>>

\* interaction.isButton() and interaction.isChatInputCommand(): what the gateway
\* answers for the two types of interaction it delivers.
isButton(type) == type = "button"
isChatInputCommand(type) == type = "command"

\* The tests an interaction passes on its way to the ban of /dodge, in the order
\* of the listener (queue.js:734, 981-1005).  The listener starts with
\* `if (!interaction.isButton()) return;`.
DodgeAccepted(type, channelId, userId) ==
    /\ isButton(type)
    /\ isChatInputCommand(type)
    /\ channelId \in matches
    /\ userId \in states[channelId].players
    /\ states[channelId].voteStartTime # NoTime
    /\ ~(now - states[channelId].voteStartTime > DODGE_TIME_LIMIT)

\* The gateway delivers the slash command /dodge, issued by userId in a channel,
\* to the listener of setupQueue (queue.js:732-1039).  An accepted forfeit bans
\* the member for DODGE_BAN_DURATION (queue.js:1007-1009); the handler then
\* awaits the notice and the store.
Dodge(s, channelId, userId) ==
    /\ h[s].pc = "idle"
    /\ nextInteraction' = nextInteraction + 1
    /\ IF DodgeAccepted("command", channelId, userId)
       THEN /\ dodgeBans' = MapSet(dodgeBans, userId, BanEntry(DODGE_BAN_DURATION))
            /\ hist' = [hist EXCEPT !.installed =
                           MapSet(@, userId, [T |-> now, D |-> DODGE_BAN_DURATION]),
                                    !.forfeit = [id |-> nextInteraction, user |-> userId,
                                                 chan |-> channelId, at |-> now,
                                                 start |-> IF channelId \in matches
                                                           THEN states[channelId].voteStartTime
                                                           ELSE NoTime]]
            /\ h' = [h EXCEPT ![s] = [Idle EXCEPT !.pc = "dodging", !.kind = "dodge",
                                                  !.user = userId, !.chan = channelId]]
       ELSE /\ hist' = [hist EXCEPT !.forfeit = [id |-> nextInteraction, user |-> userId,
                                                 chan |-> channelId, at |-> now,
                                                 start |-> IF channelId \in matches
                                                           THEN states[channelId].voteStartTime
                                                           ELSE NoTime]]
            /\ UNCHANGED <<dodgeBans, h>>
    /\ UNCHANGED <<now, syncPlayerRankLimiter, userCache, guildMembers,
                   queues, queueLocks, creatingGamesInGuild, matches, states,
                   voteUpdateQueues, buttonCooldowns, processedInteractions,
                   dbUsers, dbMatchStatus, dbVotes>>

\* The notice is sent and the match marked cancelled (queue.js:1011-1022): the
\* match leaves the registry.
DodgeCancelled(s) ==
    /\ h[s].pc = "dodging"
    /\ LET state == states[h[s].chan]
       IN /\ dbMatchStatus' = IF state.matchId # NoMatchId
                              THEN MapSet(dbMatchStatus, state.matchId, "cancelled")
                              ELSE dbMatchStatus
          /\ matches' = matches \ {h[s].chan}
          /\ voteUpdateQueues' = [voteUpdateQueues EXCEPT !.keys = @ \ {state.matchId}]
    /\ h' = [h EXCEPT ![s] = Idle]
    /\ UNCHANGED <<now, syncPlayerRankLimiter, userCache, guildMembers,
                   queues, queueLocks, creatingGamesInGuild, states, buttonCooldowns,
                   dodgeBans, processedInteractions, nextInteraction, dbUsers, dbVotes, hist>>

\* What the cleanup callback keeps at time t (memory-cleanup.js:22-42).
KeptCooldowns(t) ==
    [u \in {v \in DOMAIN buttonCooldowns : ~(t - buttonCooldowns[v].createdAt > COOLDOWN_TTL)}
        |-> buttonCooldowns[u]]
KeptBans(t) ==
    [u \in {v \in DOMAIN dodgeBans : ~(t - dodgeBans[v].createdAt > DODGE_BAN_DURATION + 1000)}
        |-> dodgeBans[u]]
\* The test of memory-cleanup.js:38 with >= for >.
KeptMatchesBelow(t) == {c \in matches : ~(t - states[c].createdAt >= MATCH_TTL)}

KeptMatches(t) == {c \in matches : ~(t - states[c].createdAt > MATCH_TTL)}

\* The sweep without its loop over the match states.
MemoryCleanupKeepsMatches(limit) ==
    /\ now + CLEANUP_INTERVAL <= limit
    /\ now' = now + CLEANUP_INTERVAL
    /\ buttonCooldowns' = KeptCooldowns(now')
    /\ dodgeBans' = KeptBans(now')
    /\ UNCHANGED <<syncPlayerRankLimiter, userCache, guildMembers, queues, queueLocks, creatingGamesInGuild, matches,
                   states, voteUpdateQueues, processedInteractions, nextInteraction, dbUsers,
                   dbMatchStatus, dbVotes, h, hist>>

\* CLEANUP_INTERVAL passes and the setInterval callback runs; the sweeps are
\* followed up to the time `limit`.
MemoryCleanup(limit) ==
    /\ now + CLEANUP_INTERVAL <= limit
    /\ now' = now + CLEANUP_INTERVAL
    /\ buttonCooldowns' = KeptCooldowns(now')
    /\ dodgeBans' = KeptBans(now')
    /\ matches' = KeptMatches(now')
    /\ voteUpdateQueues' = [voteUpdateQueues EXCEPT !.keys =
                               @ \ {states[c].matchId : c \in matches \ KeptMatches(now')}]
    /\ UNCHANGED <<syncPlayerRankLimiter, userCache, guildMembers, queues, queueLocks, creatingGamesInGuild, states,
                   processedInteractions, nextInteraction, dbUsers, dbMatchStatus, dbVotes,
                   h, hist>>

startMemoryCleanup == MemoryCleanup(MaxSweeps * CLEANUP_INTERVAL)

(***************************************************************************)
(* The state after construction (part_011:60-66): empty registries, every  *)
(* member registered with the default profile (models/User.js).            *)
(***************************************************************************)
NoHistory == [drains |-> 0, registered |-> 0, picks |-> <<>>, bans |-> <<>>, reached |-> {},
              installed |-> <<>>, forfeit |-> [id |-> 0, user |-> NoUser, chan |-> NoChan, at |-> 0,
                          start |-> NoTime],
              redelivered |-> <<>>, reprocessed |-> {}, clearedAt |-> 1,
              admitted |-> <<>>, suspended |-> 0, synced |-> <<>>, shown |-> <<>>]
NoVoteUpdates == [keys |-> {}, timers |-> <<>>]
\* No member holds a rank role, and the member cache says so.
NoRankRoles == [u \in Users |-> [roles |-> {}, cache |-> {}]]

Init ==
    /\ now = 0
    /\ queues = [t \in Tiers |-> <<>>]
    /\ queueLocks = [t \in Tiers |-> FALSE]
    /\ creatingGamesInGuild = [t \in Tiers |-> FALSE]
    /\ matches = {}
    /\ states = <<>>
    /\ voteUpdateQueues = NoVoteUpdates
    /\ buttonCooldowns = <<>>
    /\ dodgeBans = <<>>
    /\ processedInteractions = {}
    /\ nextInteraction = 1
    /\ dbUsers = [u \in Users |-> [points |-> DefaultPoints, wins |-> 0, losses |-> 0]]
    /\ dbMatchStatus = <<>>
    /\ dbVotes = <<>>
    /\ syncPlayerRankLimiter = RateLimiter(10, 1000)
    /\ userCache = <<>>
    /\ guildMembers = NoRankRoles
    /\ h = [s \in Handlers |-> Idle]
    /\ hist = NoHistory

\* Clicks are enumerated up to renaming: a new click takes the lowest free slot, and
\* a member who has not clicked yet clicks only after the members numbered before.
LowestIdle(s) == h[s].pc = "idle" /\ \A s2 \in Handlers : s2 < s => h[s2].pc # "idle"
HasClicked(u) == u \in DOMAIN buttonCooldowns \/ \E s \in Handlers : h[s].user = u
InArrivalOrder(u) == \A v \in Users : v < u => HasClicked(v)

\* The steps of a queue click after the click itself.
QueueSteps ==
    \/ \E s \in Handlers : AfterDefer(s)
    \/ \E s \in Handlers : PollQueueLock(s)
    \/ \E s \in Handlers : AfterReply(s)
    \/ \E s \in Handlers, threw \in BOOLEAN : AfterUpdate(s, threw)

CreationSteps ==
    \/ \E s \in Handlers, threw \in BOOLEAN : AfterDrainUpdate(s, threw)
    \/ \E s \in Handlers, threw \in BOOLEAN : BuildMatchState(s, threw)
    \/ \E s \in Handlers, threw \in BOOLEAN : RegisterMatch(s, threw)
    \/ \E s \in Handlers, threw \in BOOLEAN : persistMatchSetup(s, threw)
    \/ \E s \in Handlers : FinishCreate(s)

(***************************************************************************)
(* Spec: the queue of one tier from construction up to match creation.     *)
(* Members click "join"; a seventh member and repeated clicks race with    *)
(* the creation of the match.  No handler finds the creation lock taken    *)
(* here (the queue never holds QUEUE_SIZE members again while a match is   *)
(* being created), so the lock's wait loop is left to SpecTrigger.         *)
(***************************************************************************)
JoinClick ==
    \E s \in Handlers, u \in Users :
        /\ nextInteraction <= MaxClicks
        /\ LowestIdle(s) /\ InArrivalOrder(u)
        /\ QueueClick(s, "join", u, "v3-general")

Next ==
    \/ JoinClick
    \/ QueueSteps
    \/ CreationSteps
    \/ TickCooldown

Spec == Init /\ [][Next]_vars

(***************************************************************************)
(* SpecTrigger: the capacity trigger with a handler waiting for the        *)
(* creation lock.  A handler finds the lock taken only if the queue holds  *)
(* QUEUE_SIZE members again after a drain, so the specification starts     *)
(* with ten members queued: their joins' updateQueueMessage threw, which   *)
(* ends a handler before the capacity test (part_011:788-792).  Two more   *)
(* members join, queued members leave.                                     *)
(***************************************************************************)
TriggerUsers == 1..(2 * QUEUE_SIZE)
Queued == [i \in 1..(2 * QUEUE_SIZE - 2) |-> i]

InitTrigger ==
    /\ now = 0
    /\ queues = [t \in Tiers |-> IF t = "v3-general" THEN Queued ELSE <<>>]
    /\ queueLocks = [t \in Tiers |-> FALSE]
    /\ creatingGamesInGuild = [t \in Tiers |-> FALSE]
    /\ matches = {}
    /\ states = <<>>
    /\ voteUpdateQueues = NoVoteUpdates
    /\ buttonCooldowns = [u \in Range(Queued) |-> [timestamp |-> 0, createdAt |-> 0]]
    /\ dodgeBans = <<>>
    /\ processedInteractions = Range(Queued)
    /\ nextInteraction = Len(Queued) + 1
    /\ dbUsers = [u \in TriggerUsers |-> [points |-> DefaultPoints, wins |-> 0, losses |-> 0]]
    /\ dbMatchStatus = <<>>
    /\ dbVotes = <<>>
    /\ syncPlayerRankLimiter = RateLimiter(10, 1000)
    /\ userCache = <<>>
    /\ guildMembers = NoRankRoles
    /\ h = [s \in Handlers |-> Idle]
    /\ hist = NoHistory

TriggerClick ==
    \E s \in Handlers :
        /\ nextInteraction <= Len(Queued) + MaxTriggerClicks
        /\ LowestIdle(s)
        /\ \/ \E u \in TriggerUsers \ Range(Queued) :
                 /\ \A v \in TriggerUsers \ Range(Queued) : v < u => HasClicked(v)
                 /\ QueueClick(s, "join", u, "v3-general")
           \/ QueueClick(s, "leave", QUEUE_SIZE + 1, "v3-general")

NextTrigger ==
    \/ TriggerClick
    \/ QueueSteps
    \/ \E s \in Handlers : PollGameCreationLock(s)
    \/ CreationSteps
    \/ TickCooldown

SpecTrigger == InitTrigger /\ [][NextTrigger]_vars

(***************************************************************************)
(* SpecRejoin: SpecTrigger with joins by member 1, who is among the first  *)
(* six of the queue, and by member 11.                                     *)
(***************************************************************************)
RejoinClick ==
    \E s \in Handlers, u \in {1, 2 * QUEUE_SIZE - 1} :
        /\ nextInteraction <= Len(Queued) + MaxRejoinClicks
        /\ LowestIdle(s)
        /\ QueueClick(s, "join", u, "v3-general")

NextRejoin ==
    \/ RejoinClick
    \/ QueueSteps
    \/ \E s \in Handlers : PollGameCreationLock(s)
    \/ CreationSteps
    \/ TickCooldown

SpecRejoin == InitTrigger /\ [][NextRejoin]_vars

(***************************************************************************)
(* SpecJoin: a few members clicking join and leave in several tiers, below *)
(* capacity.                                                               *)
(***************************************************************************)
JoinUsers == 1..NumJoinUsers

AnyQueueClick ==
    \E s \in Handlers, kind \in {"join", "leave"}, u \in JoinUsers, t \in Tiers :
        /\ nextInteraction <= MaxJoinClicks
        /\ LowestIdle(s) /\ InArrivalOrder(u)
        /\ QueueClick(s, kind, u, t)

NextJoin ==
    \/ AnyQueueClick
    \/ QueueSteps
    \/ TickCooldown

SpecJoin == Init /\ [][NextJoin]_vars

(***************************************************************************)
(* SpecDraft: the draft and the map bans of one match.  It starts where    *)
(* Spec registers the match of members 1..6 (part_011:359): the creating   *)
(* handler, in its own slot, is still in persistMatchSetup.  The captains, *)
(* a player and clicks on the pick and ban buttons race with each other    *)
(* and with the creating handler.                                          *)
(***************************************************************************)
CreatorSlot == 0
FirstSix == [i \in 1..QUEUE_SIZE |-> i]

Creator ==
    [Idle EXCEPT !.pc = "persisting", !.kind = "join", !.user = QUEUE_SIZE,
                 !.tier = "v3-general", !.chan = 1, !.reply = "joined", !.players = FirstSix]

InitDraft ==
    /\ now = 0
    /\ queues = [t \in Tiers |-> <<>>]
    /\ queueLocks = [t \in Tiers |-> FALSE]
    /\ creatingGamesInGuild = [t \in Tiers |-> t = "v3-general"]
    /\ matches = {1}
    /\ dbUsers = [u \in Users |-> [points |-> DefaultPoints, wins |-> 0, losses |-> 0]]
    /\ states = LET rows == sortedByPoints(ProfileRows(FirstSix))
                IN <<NewMatchState(FirstSix, rows[2], rows[1])>>
    /\ voteUpdateQueues = NoVoteUpdates
    /\ buttonCooldowns = [u \in 1..QUEUE_SIZE |-> [timestamp |-> 0, createdAt |-> 0]]
    /\ dodgeBans = <<>>
    /\ processedInteractions = 1..QUEUE_SIZE
    /\ nextInteraction = QUEUE_SIZE + 1
    /\ dbMatchStatus = <<>>
    /\ dbVotes = <<>>
    /\ syncPlayerRankLimiter = RateLimiter(10, 1000)
    /\ userCache = <<>>
    /\ guildMembers = NoRankRoles
    /\ h = [s \in {CreatorSlot} \cup Handlers |-> IF s = CreatorSlot THEN Creator ELSE Idle]
    /\ hist = [NoHistory EXCEPT !.drains = 1, !.registered = 1]

\* The members who click: the two captains and one more player.
DraftActors == 1..NumDraftActors
\* The pick buttons are built from "remaining" (part_011:409-436).
PickButtons(c) == states[c].players \ {states[c].captainA, states[c].captainB}
\* The ban buttons that are clicked.
BanButtons == {MAPS[i] : i \in 1..NumBanMaps}

DraftClick ==
    \E s \in Handlers, c \in matches, u \in DraftActors :
        /\ nextInteraction <= QUEUE_SIZE + MaxDraftClicks
        /\ LowestIdle(s)
        /\ \/ \E p \in PickButtons(c) : PickClick(s, c, u, p)
           \/ \E m \in BanButtons : BanClick(s, c, u, m)

DraftSteps ==
    \/ \E s \in Handlers : PickGuard(s)
    \/ \E s \in Handlers : PickWritten(s)
    \/ \E s \in Handlers, threw \in BOOLEAN : LastWritten(s, threw)
    \/ \E s \in Handlers : BanGuard(s)

NextDraft ==
    \/ DraftClick
    \/ DraftSteps
    \/ \E threw \in BOOLEAN : persistMatchSetup(CreatorSlot, threw)
    \/ FinishCreate(CreatorSlot)

SpecDraft == InitDraft /\ [][NextDraft]_vars

(***************************************************************************)
(* SpecVote: the vote on one match.  It starts where SpecDraft ends a      *)
(* draft without races: captain A picked 3, captain B picked 4 and 5,      *)
(* member 6 went to team A, the first two maps are banned and the third    *)
(* is selected.  Players and a member outside the match click the vote     *)
(* buttons.                                                                *)
(***************************************************************************)
DraftedState ==
    LET rows == sortedByPoints(ProfileRows(FirstSix))
        created == NewMatchState(FirstSix, rows[2], rows[1])
    IN [created EXCEPT !.teamA = {rows[2], 3, 6}, !.teamB = {rows[1], 4, 5},
                       !.remaining = <<>>, !.phase = "VOTE", !.matchId = 1,
                       !.availableMaps = SubSeq(MAPS, 3, Len(MAPS)),
                       !.bannedMaps = SubSeq(MAPS, 1, 2), !.selectedMap = MAPS[3],
                       !.voteStartTime = 0]

DraftInteractions == 5

InitVote ==
    /\ now = 0
    /\ queues = [t \in Tiers |-> <<>>]
    /\ queueLocks = [t \in Tiers |-> FALSE]
    /\ creatingGamesInGuild = [t \in Tiers |-> FALSE]
    /\ matches = {1}
    /\ dbUsers = [u \in Users |-> [points |-> DefaultPoints, wins |-> 0, losses |-> 0]]
    /\ states = <<DraftedState>>
    /\ voteUpdateQueues = NoVoteUpdates
    /\ buttonCooldowns = [u \in 1..QUEUE_SIZE |-> [timestamp |-> 0, createdAt |-> 0]]
    /\ dodgeBans = <<>>
    /\ processedInteractions = 1..(QUEUE_SIZE + DraftInteractions)
    /\ nextInteraction = QUEUE_SIZE + DraftInteractions + 1
    /\ dbMatchStatus = <<"draft">>
    /\ dbVotes = <<>>
    /\ syncPlayerRankLimiter = RateLimiter(10, 1000)
    /\ userCache = <<>>
    /\ guildMembers = NoRankRoles
    /\ h = [s \in {CreatorSlot} \cup Handlers |-> Idle]
    /\ hist = [NoHistory EXCEPT !.drains = 1, !.registered = 1,
                                !.picks = <<"A1", "B1", "B2">>, !.bans = <<"BAN_A", "BAN_B">>]

\* The players who vote, in the order of their first click, and the outsider.
Voters == 1..NumVoters
HasVoted(u) == VoteRows(1, u) # {} \/ \E s \in Handlers : h[s].user = u
InVoteOrder(u) == \A v \in Voters : v < u => HasVoted(v)

VoteClicks ==
    \E s \in Handlers, c \in Channels, u \in Voters \cup {NumUsers}, t \in {"A", "B"} :
        /\ nextInteraction <= QUEUE_SIZE + DraftInteractions + MaxVoteClicks
        /\ LowestIdle(s)
        /\ u \in Voters => InVoteOrder(u)
        /\ VoteClick(s, c, u, t)

VoteSteps ==
    \/ \E s \in Handlers : VoteDeferred(s)
    \/ \E s \in Handlers : VoteFound(s)
    \/ \E s \in Handlers : VoteWritten(s)
    \/ \E s \in Handlers : TryFinalizeEnter(s)
    \/ \E s \in Handlers : CountVotes(s)
    \/ \E s \in Handlers : StatusRead(s)
    \/ \E s \in Handlers : MarkedDone(s)
    \/ \E s \in Handlers : Increment(s)
    \/ \E s \in Handlers : RanksSynced(s)
    \/ \E s \in Handlers : Posted(s)
    \/ \E m \in Channels : VoteMessageUpdated(m)

NextVote ==
    \/ VoteClicks
    \/ VoteSteps

SpecVote == InitVote /\ [][NextVote]_vars

(***************************************************************************)
(* SpecBan: bans against joins and cleanup sweeps.  It starts with the     *)
(* match of SpecVote at the start of its vote; an admin bans and unbans, a *)
(* player of the match and the banned member click join, and the cleanup   *)
(* runs every CLEANUP_INTERVAL.  (No /dodge installs a ban: SpecDodge.)    *)
(***************************************************************************)
BanUsers == {1, NumUsers}
BanDurations == {<<30, "m">>, <<2, "h">>}

BanJoinClick ==
    \E s \in Handlers, u \in BanUsers :
        /\ nextInteraction <= QUEUE_SIZE + DraftInteractions + MaxBanClicks
        /\ LowestIdle(s)
        /\ QueueClick(s, "join", u, "v3-general")

NextBan ==
    \/ BanJoinClick
    \/ QueueSteps
    \/ \E d \in BanDurations, isAdmin \in BOOLEAN : BanPlayer(NumUsers, d[1], d[2], isAdmin)
    \/ \E isAdmin \in BOOLEAN : UnbanPlayer(NumUsers, isAdmin)
    \/ startMemoryCleanup

SpecBan == InitVote /\ [][NextBan]_vars

(***************************************************************************)
(* SpecDodge: /dodge during the map bans and the vote of one match.  It    *)
(* starts where SpecDraft ends a draft without races, the match persisted  *)
(* and no map banned yet.  The captains click ban buttons, a player of the *)
(* match and a member outside it issue /dodge, and time passes in halves   *)
(* of the forfeit window.                                                  *)
(***************************************************************************)
PickInteractions == 3

InitDodge ==
    /\ now = 0
    /\ queues = [t \in Tiers |-> <<>>]
    /\ queueLocks = [t \in Tiers |-> FALSE]
    /\ creatingGamesInGuild = [t \in Tiers |-> FALSE]
    /\ matches = {1}
    /\ dbUsers = [u \in Users |-> [points |-> DefaultPoints, wins |-> 0, losses |-> 0]]
    /\ states = <<[DraftedState EXCEPT !.phase = "BAN_A", !.availableMaps = MAPS,
                                       !.bannedMaps = <<>>, !.selectedMap = "",
                                       !.voteStartTime = NoTime]>>
    /\ voteUpdateQueues = NoVoteUpdates
    /\ buttonCooldowns = [u \in 1..QUEUE_SIZE |-> [timestamp |-> 0, createdAt |-> 0]]
    /\ dodgeBans = <<>>
    /\ processedInteractions = 1..(QUEUE_SIZE + PickInteractions)
    /\ nextInteraction = QUEUE_SIZE + PickInteractions + 1
    /\ dbMatchStatus = <<"draft">>
    /\ dbVotes = <<>>
    /\ syncPlayerRankLimiter = RateLimiter(10, 1000)
    /\ userCache = <<>>
    /\ guildMembers = NoRankRoles
    /\ h = [s \in Handlers |-> Idle]
    /\ hist = [NoHistory EXCEPT !.drains = 1, !.registered = 1,
                                !.picks = <<"A1", "B1", "B2">>]

\* The members who issue /dodge: a player of the match and a member outside it.
DodgeUsers == {NumDraftActors, NumUsers}

DodgeCommand ==
    \E s \in Handlers, c \in Channels, u \in DodgeUsers :
        /\ nextInteraction <= QUEUE_SIZE + PickInteractions + MaxForfeitClicks
        /\ LowestIdle(s)
        /\ Dodge(s, c, u)

CaptainBanClick ==
    \E s \in Handlers, c \in matches, u \in DraftActors, m \in BanButtons :
        /\ u \in {states[c].captainA, states[c].captainB}
        /\ nextInteraction <= QUEUE_SIZE + PickInteractions + MaxForfeitClicks
        /\ LowestIdle(s)
        /\ BanClick(s, c, u, m)

TickForfeit == Advance(DODGE_TIME_LIMIT \div 2, MaxForfeitTicks * (DODGE_TIME_LIMIT \div 2))

NextDodge ==
    \/ DodgeCommand
    \/ CaptainBanClick
    \/ \E s \in Handlers : BanGuard(s)
    \/ TickForfeit

SpecDodge == InitDodge /\ [][NextDodge]_vars

(***************************************************************************)
(* SpecCaptains: the creation of a match for every standing of the six     *)
(* drained members.  It starts where Spec drains the queue (part_011:798): *)
(* the handler of the sixth join holds the creation lock.  Each of the six *)
(* has a profile or none (a member can queue without one), with the        *)
(* default points or the points after one win or one loss.                 *)
(***************************************************************************)
CaptainPoints == {DefaultPoints - POINTS_LOSS, DefaultPoints, DefaultPoints + POINTS_WIN}

InitCaptains ==
    /\ now = 0
    /\ queues = [t \in Tiers |-> <<>>]
    /\ queueLocks = [t \in Tiers |-> FALSE]
    /\ creatingGamesInGuild = [t \in Tiers |-> t = "v3-general"]
    /\ matches = {}
    /\ states = <<>>
    /\ voteUpdateQueues = NoVoteUpdates
    /\ buttonCooldowns = [u \in 1..QUEUE_SIZE |-> [timestamp |-> 0, createdAt |-> 0]]
    /\ dodgeBans = <<>>
    /\ processedInteractions = 1..QUEUE_SIZE
    /\ nextInteraction = QUEUE_SIZE + 1
    /\ \E registered \in SUBSET (1..QUEUE_SIZE) :
           \E points \in [registered -> CaptainPoints] :
               dbUsers = [u \in registered |-> [points |-> points[u], wins |-> 0, losses |-> 0]]
    /\ dbMatchStatus = <<>>
    /\ dbVotes = <<>>
    /\ syncPlayerRankLimiter = RateLimiter(10, 1000)
    /\ userCache = <<>>
    /\ guildMembers = NoRankRoles
    /\ h = [s \in Handlers |->
               IF s = 1 THEN [Idle EXCEPT !.pc = "drained", !.kind = "join", !.user = QUEUE_SIZE,
                                          !.tier = "v3-general", !.reply = "joined",
                                          !.players = FirstSix]
               ELSE Idle]
    /\ hist = [NoHistory EXCEPT !.drains = 1]

NextCaptains == CreationSteps

SpecCaptains == InitCaptains /\ [][NextCaptains]_vars

(***************************************************************************)
(* SpecLive: Spec with six members and the scheduling of Node.js: a        *)
(* suspended handler resumes when its call returns or throws and a timer   *)
(* fires, so every step of a handler in flight is eventually taken.        *)
(* Nothing obliges a member to click.                                      *)
(***************************************************************************)
LiveClick ==
    \E s \in Handlers, u \in 1..QUEUE_SIZE :
        /\ nextInteraction <= MaxLiveClicks
        /\ LowestIdle(s) /\ InArrivalOrder(u)
        /\ QueueClick(s, "join", u, "v3-general")

\* The steps of the handler in slot s.
HandlerStep(s) ==
    \/ AfterDefer(s)
    \/ PollQueueLock(s)
    \/ AfterReply(s)
    \/ \E threw \in BOOLEAN : AfterUpdate(s, threw)
    \/ PollGameCreationLock(s)
    \/ \E threw \in BOOLEAN : AfterDrainUpdate(s, threw)
    \/ \E threw \in BOOLEAN : BuildMatchState(s, threw)
    \/ \E threw \in BOOLEAN : RegisterMatch(s, threw)
    \/ \E threw \in BOOLEAN : persistMatchSetup(s, threw)
    \/ FinishCreate(s)

NextLive ==
    \/ LiveClick
    \/ QueueSteps
    \/ CreationSteps

SpecLive == Init /\ [][NextLive]_vars /\ \A s \in Handlers : WF_vars(HandlerStep(s))

(***************************************************************************)
(* SpecOrder: joins that several rejection reasons apply to.  It starts    *)
(* with the match of SpecVote registered; a player of the match and a      *)
(* member outside it click join in both tiers, with and without the role   *)
(* of the second tier, while an admin bans and unbans them.                *)
(***************************************************************************)
OrderClick ==
    \E s \in Handlers, u \in BanUsers, t \in Tiers :
        /\ nextInteraction <= QUEUE_SIZE + DraftInteractions + MaxOrderClicks
        /\ LowestIdle(s)
        /\ QueueClick(s, "join", u, t)

NextOrder ==
    \/ OrderClick
    \/ QueueSteps
    \/ \E u \in BanUsers, isAdmin \in BOOLEAN : BanPlayer(u, 2, "h", isAdmin)
    \/ \E u \in BanUsers, isAdmin \in BOOLEAN : UnbanPlayer(u, isAdmin)
    \/ TickCooldown

SpecOrder == InitVote /\ [][NextOrder]_vars

(***************************************************************************)
(* SpecDedupe: repeated deliveries of queue clicks.  Members click join    *)
(* and leave in turn in the first tier; the gateway may deliver a click    *)
(* again, with the identifier and the content of its first delivery,       *)
(* before or after the seen-set is emptied.                                *)
(***************************************************************************)
\* The click delivered under identifier id: member 1 joins, member 1 leaves,
\* member 2 joins, member 2 leaves, and so on.
ClickOf(id) ==
    [kind |-> IF id % 2 = 1 THEN "join" ELSE "leave",
     user |-> (((id - 1) \div 2) % NumJoinUsers) + 1]

DedupeClick ==
    \E s \in Handlers :
        /\ nextInteraction <= MaxDedupeClicks
        /\ LowestIdle(s)
        /\ QueueClick(s, ClickOf(nextInteraction).kind, ClickOf(nextInteraction).user,
                      "v3-general")

Redelivery ==
    \E s \in Handlers, id \in 1..MaxDedupeClicks :
        /\ Len(hist.redelivered) < MaxRedeliveries
        /\ LowestIdle(s)
        /\ QueueRedelivery(s, id, ClickOf(id).kind, ClickOf(id).user, "v3-general")

NextDedupe ==
    \/ DedupeClick
    \/ Redelivery
    \/ QueueSteps
    \/ TickCooldown
    \/ ClearProcessedInteractions

SpecDedupe == Init /\ [][NextDedupe]_vars

(***************************************************************************)
(* Rank tiers and the rate limiter of the rank synchronisation             *)
(* (part_011:37-45, 233-266; utils/rate-limiter.js).                        *)
(***************************************************************************)
\* this.requests.filter(t => now - t < this.windowMs)
InWindow(limiter) == SelectSeq(limiter.requests, LAMBDA t : now - t < limiter.windowMs)

\* The log is full and its oldest entry has still time to spend in the window.
\* (With an empty log oldestRequest is undefined and waitTime is NaN: no wait.)
waitTime(limiter) == limiter.windowMs - (now - InWindow(limiter)[1])
MustWait(limiter) ==
    /\ Len(InWindow(limiter)) >= limiter.maxRequests
    /\ InWindow(limiter) # <<>>
    /\ waitTime(limiter) > 0

\* wait() with the comparison of the log's length to the cap left out.
waitUnlimited(s, next) ==
    /\ syncPlayerRankLimiter' =
           [syncPlayerRankLimiter EXCEPT !.requests = Append(InWindow(syncPlayerRankLimiter), now)]
    /\ h' = [h EXCEPT ![s] = [next EXCEPT !.pc = "memberfetch"]]
    /\ hist' = [hist EXCEPT !.admitted = Append(@, now)]

\* RateLimiter.wait() run by slot s, whose record is `next` once it runs: the
\* caller is suspended on a timer, or logged and admitted (rate-limiter.js:12-27).
wait(s, next) ==
    IF MustWait(syncPlayerRankLimiter)
    THEN /\ syncPlayerRankLimiter' =
                [syncPlayerRankLimiter EXCEPT !.requests = InWindow(syncPlayerRankLimiter)]
         /\ h' = [h EXCEPT ![s] = [next EXCEPT !.pc = "limiterwait",
                                               !.t0 = now + waitTime(syncPlayerRankLimiter)]]
         /\ hist' = [hist EXCEPT !.suspended = @ + 1]
    ELSE /\ syncPlayerRankLimiter' =
                [syncPlayerRankLimiter EXCEPT !.requests = Append(InWindow(syncPlayerRankLimiter), now)]
         /\ h' = [h EXCEPT ![s] = [next EXCEPT !.pc = "memberfetch"]]
         /\ hist' = [hist EXCEPT !.admitted = Append(@, now)]

RankFrame ==
    UNCHANGED <<now, userCache, queues, queueLocks, creatingGamesInGuild, matches, states,
                voteUpdateQueues, buttonCooldowns, dodgeBans, processedInteractions,
                nextInteraction, dbUsers, dbMatchStatus, dbVotes>>

\* syncPlayerRank(guild, userId, newPoints) up to its first suspension (part_011:242-243).
syncPlayerRank(s, userId, newPoints) ==
    /\ h[s].pc = "idle"
    /\ wait(s, [Idle EXCEPT !.kind = "rank", !.user = userId, !.points = newPoints])
    /\ RankFrame
    /\ UNCHANGED guildMembers

\* The timer of a suspended wait() fires: `return this.wait()`.
TimerFired(s) ==
    /\ h[s].pc = "limiterwait"
    /\ now >= h[s].t0
    /\ wait(s, h[s])
    /\ RankFrame
    /\ UNCHANGED guildMembers

\* guild.members.fetch has answered (part_011:245-248): the new tier is computed.
MemberFetched(s, found) ==
    /\ h[s].pc = "memberfetch"
    /\ h' = [h EXCEPT ![s] = IF found
                             THEN [@ EXCEPT !.pc = "rolesync", !.rank = getRankByPoints(h[s].points),
                                            !.idx = 1]
                             ELSE Idle]
    /\ RankFrame
    /\ UNCHANGED <<syncPlayerRankLimiter, guildMembers, hist>>

\* part_011:47.
RANK_ROLES == <<"Bronze", "Silver", "Gold", "Platinium", "Diamond", "Supersonic">>

\* The record of slot s when the code of part_011:250-262 runs on from entry i
\* of RANK_ROLES with the member's role cache as it is now: suspended on the
\* removal of the first role the cache holds, or on the addition of the role of
\* the new tier when the cache lacks it, or done.
RECURSIVE NextRoleCall(_, _, _)
NextRoleCall(rec, cache, i) ==
    IF i <= Len(RANK_ROLES)
    THEN IF RANK_ROLES[i] \in cache
         THEN [rec EXCEPT !.pc = "roleremove", !.idx = i]
         ELSE NextRoleCall(rec, cache, i + 1)
    ELSE IF rec.rank \notin cache
         THEN [rec EXCEPT !.pc = "roleadd"]
         ELSE Idle

\* The loop over RANK_ROLES is entered (part_011:250-253).
RoleLoopEntered(s) ==
    /\ h[s].pc = "rolesync"
    /\ h' = [h EXCEPT ![s] = NextRoleCall(h[s], guildMembers[h[s].user].cache, 1)]
    /\ RankFrame
    /\ UNCHANGED <<syncPlayerRankLimiter, guildMembers, hist>>

\* member.roles.remove(role) has answered (part_011:254): the server has taken
\* the role from the member; the call resolves to a copy of the member and
\* leaves member.roles.cache to the gateway's member update.
RoleRemoved(s) ==
    /\ h[s].pc = "roleremove"
    /\ guildMembers' = [guildMembers EXCEPT ![h[s].user].roles = @ \ {RANK_ROLES[h[s].idx]}]
    /\ h' = [h EXCEPT ![s] = NextRoleCall(h[s], guildMembers[h[s].user].cache, h[s].idx + 1)]
    /\ RankFrame
    /\ UNCHANGED <<syncPlayerRankLimiter, hist>>

\* member.roles.add(newRankRole) has answered (part_011:261): the function returns.
RoleAdded(s) ==
    /\ h[s].pc = "roleadd"
    /\ guildMembers' = [guildMembers EXCEPT ![h[s].user].roles = @ \cup {h[s].rank}]
    /\ h' = [h EXCEPT ![s] = Idle]
    /\ RankFrame
    /\ UNCHANGED <<syncPlayerRankLimiter, hist>>

\* The gateway's member update for userId is handled: the cached member takes
\* the roles the server holds.
GuildMemberUpdate(userId) ==
    /\ guildMembers[userId].cache # guildMembers[userId].roles
    /\ guildMembers' = [guildMembers EXCEPT ![userId].cache = guildMembers[userId].roles]
    /\ RankFrame
    /\ UNCHANGED <<syncPlayerRankLimiter, h, hist>>

(***************************************************************************)
(* SpecLimiter: concurrent rank synchronisations through a limiter of a    *)
(* small cap and a small window, with time advancing by 1 ms.              *)
(***************************************************************************)
InitLimiter ==
    /\ now = 0
    /\ queues = [t \in Tiers |-> <<>>]
    /\ queueLocks = [t \in Tiers |-> FALSE]
    /\ creatingGamesInGuild = [t \in Tiers |-> FALSE]
    /\ matches = {}
    /\ states = <<>>
    /\ voteUpdateQueues = NoVoteUpdates
    /\ buttonCooldowns = <<>>
    /\ dodgeBans = <<>>
    /\ processedInteractions = {}
    /\ nextInteraction = 1
    /\ dbUsers = [u \in Users |-> [points |-> DefaultPoints, wins |-> 0, losses |-> 0]]
    /\ dbMatchStatus = <<>>
    /\ dbVotes = <<>>
    /\ \E maxRequests \in 1..MaxLimiterRequests, windowMs \in 2..MaxLimiterWindow :
           syncPlayerRankLimiter = RateLimiter(maxRequests, windowMs)
    /\ userCache = <<>>
    /\ guildMembers = NoRankRoles
    /\ h = [s \in Handlers |-> Idle]
    /\ hist = NoHistory

LimiterCall ==
    \E s \in Handlers :
        /\ Len(hist.admitted) + Cardinality({c \in Handlers : h[c].pc = "limiterwait"})
               < MaxLimiterCalls
        /\ syncPlayerRank(s, s, dbUsers[s].points)

TickLimiter == Advance(1, MaxLimiterTime)

RankSteps ==
    \/ \E s \in Handlers : TimerFired(s)
    \/ \E s \in Handlers, found \in BOOLEAN : MemberFetched(s, found)
    \/ \E s \in Handlers : RoleLoopEntered(s)
    \/ \E s \in Handlers : RoleAdded(s)

NextLimiter ==
    \/ LimiterCall
    \/ RankSteps
    \/ TickLimiter

SpecLimiter == InitLimiter /\ [][NextLimiter]_vars

(***************************************************************************)
(* SpecRank: the rank synchronisation for every point total of a range     *)
(* that spans all tiers, one call at a time as tryFinalize makes them      *)
(* (part_011:576-583); the limiter of 10 calls per second stays below its  *)
(* cap.                                                                    *)
(***************************************************************************)
RankPoints == (0 - MaxDebt)..MaxRankPoints

RankCall ==
    \E s \in Handlers, newPoints \in RankPoints :
        /\ Len(hist.admitted) < MaxRankCalls
        /\ \A c \in Handlers : h[c].pc = "idle"
        /\ LowestIdle(s)
        /\ syncPlayerRank(s, 1, newPoints)

NextRank ==
    \/ RankCall
    \/ \E s \in Handlers, found \in BOOLEAN : MemberFetched(s, found)
    \/ \E s \in Handlers : RoleLoopEntered(s)
    \/ \E s \in Handlers : RoleAdded(s)

SpecRank == Init /\ [][NextRank]_vars

(***************************************************************************)
(* SpecSweep: the cleanup sweeps around the age ceiling of a match.  Half  *)
(* an hour before MATCH_TTL two matches are registered in their vote: one  *)
(* of members 1..6 created at the start, one tick later or one sweep       *)
(* later, and one of members 7..12 created just now; member 13 is queued.  *)
(* A player of each match votes, which sets the vote-throttle flags, and   *)
(* the sweeps run.                                                         *)
(***************************************************************************)
SweepUsers == 1..(2 * QUEUE_SIZE + 1)
SecondSix == [i \in 1..QUEUE_SIZE |-> QUEUE_SIZE + i]
SweepStart == MATCH_TTL - CLEANUP_INTERVAL

OldState(createdAt) == [DraftedState EXCEPT !.createdAt = createdAt, !.voteStartTime = createdAt]

YoungState ==
    [NewMatchState(SecondSix, SecondSix[2], SecondSix[1]) EXCEPT
        !.teamA = {SecondSix[2], SecondSix[3], SecondSix[6]},
        !.teamB = {SecondSix[1], SecondSix[4], SecondSix[5]},
        !.remaining = <<>>, !.phase = "VOTE", !.matchId = 2,
        !.availableMaps = SubSeq(MAPS, 3, Len(MAPS)),
        !.bannedMaps = SubSeq(MAPS, 1, 2), !.selectedMap = MAPS[3],
        !.voteStartTime = SweepStart]

InitSweep ==
    /\ now = SweepStart
    /\ queues = [t \in Tiers |-> IF t = "v3-general" THEN <<2 * QUEUE_SIZE + 1>> ELSE <<>>]
    /\ queueLocks = [t \in Tiers |-> FALSE]
    /\ creatingGamesInGuild = [t \in Tiers |-> FALSE]
    /\ matches = {1, 2}
    /\ dbUsers = [u \in SweepUsers |-> [points |-> DefaultPoints, wins |-> 0, losses |-> 0]]
    /\ \E createdAt \in {0, 1, CLEANUP_INTERVAL} : states = <<OldState(createdAt), YoungState>>
    /\ voteUpdateQueues = NoVoteUpdates
    /\ buttonCooldowns = [u \in {2 * QUEUE_SIZE + 1} |-> [timestamp |-> now, createdAt |-> now]]
    /\ dodgeBans = <<>>
    /\ processedInteractions = {}
    /\ nextInteraction = 2 * (QUEUE_SIZE + DraftInteractions) + 2
    /\ dbMatchStatus = <<"draft", "draft">>
    /\ dbVotes = <<>>
    /\ syncPlayerRankLimiter = RateLimiter(10, 1000)
    /\ userCache = <<>>
    /\ guildMembers = NoRankRoles
    /\ h = [s \in Handlers |-> Idle]
    /\ hist = [NoHistory EXCEPT !.drains = 2, !.registered = 2]

SweepVoteClick ==
    \E s \in Handlers, c \in {1, 2} :
        /\ nextInteraction <= 2 * (QUEUE_SIZE + DraftInteractions) + 1 + MaxSweepClicks
        /\ LowestIdle(s)
        /\ VoteClick(s, c, states[c].captainA, "A")

NextSweep ==
    \/ SweepVoteClick
    \/ \E s \in Handlers : VoteDeferred(s)
    \/ \E s \in Handlers : VoteFound(s)
    \/ \E s \in Handlers : VoteWritten(s)
    \/ \E s \in Handlers : TryFinalizeEnter(s)
    \/ \E s \in Handlers : CountVotes(s)
    \/ \E m \in {1, 2} : VoteMessageUpdated(m)
    \/ MemoryCleanup(SweepStart + MaxSweeps * CLEANUP_INTERVAL)

SpecSweep == InitSweep /\ [][NextSweep]_vars

(***************************************************************************)
(* SpecStuck: SpecSweep with the sweeps followed until the young match is  *)
(* past the age ceiling as well.  setInterval runs its callback every      *)
(* CLEANUP_INTERVAL whatever the handlers do: the sweep is weakly fair.    *)
(* Neither match gets VOTE_THRESHOLD votes, so nothing but the sweeper     *)
(* removes them.                                                           *)
(***************************************************************************)
StuckLimit == SweepStart + MaxStuckSweeps * CLEANUP_INTERVAL

StuckVoteClick ==
    \E s \in Handlers, c \in {1, 2} :
        /\ nextInteraction <= 2 * (QUEUE_SIZE + DraftInteractions) + 1 + MaxStuckClicks
        /\ LowestIdle(s)
        /\ VoteClick(s, c, states[c].captainA, "A")

NextStuck ==
    \/ StuckVoteClick
    \/ \E s \in Handlers : VoteDeferred(s)
    \/ \E s \in Handlers : VoteFound(s)
    \/ \E s \in Handlers : VoteWritten(s)
    \/ \E s \in Handlers : TryFinalizeEnter(s)
    \/ \E s \in Handlers : CountVotes(s)
    \/ \E m \in {1, 2} : VoteMessageUpdated(m)
    \/ MemoryCleanup(StuckLimit)

SpecStuck == InitSweep /\ [][NextStuck]_vars /\ WF_vars(MemoryCleanup(StuckLimit))

(***************************************************************************)
(* SpecFinalize: the vote that reaches the threshold, with point totals    *)
(* next to a tier boundary.  Three players have voted for team A; every    *)
(* member has 1240 points (a win crosses into Silver) or 1260 points (a    *)
(* loss crosses into Bronze); the user cache is empty or holds the rows    *)
(* read when the draft message was built (part_011:394).  Time advances    *)
(* by half the cache's time to live.                                       *)
(***************************************************************************)
FinalizePoints == {RANK_SYSTEM[1].max - 10, RANK_SYSTEM[2].min + 9}
CacheTick == CACHE_TTL \div 2

InitFinalize ==
    /\ now = 0
    /\ queues = [t \in Tiers |-> <<>>]
    /\ queueLocks = [t \in Tiers |-> FALSE]
    /\ creatingGamesInGuild = [t \in Tiers |-> FALSE]
    /\ matches = {1}
    /\ \E p \in FinalizePoints :
          dbUsers = [u \in Users |-> [points |-> p, wins |-> 0, losses |-> 0]]
    /\ states = <<DraftedState>>
    /\ voteUpdateQueues = NoVoteUpdates
    /\ buttonCooldowns = [u \in 1..QUEUE_SIZE |-> [timestamp |-> 0, createdAt |-> 0]]
    /\ dodgeBans = <<>>
    /\ processedInteractions = 1..(QUEUE_SIZE + DraftInteractions + VOTE_THRESHOLD - 1)
    /\ nextInteraction = QUEUE_SIZE + DraftInteractions + VOTE_THRESHOLD
    /\ dbMatchStatus = <<"draft">>
    /\ dbVotes = [i \in 1..(VOTE_THRESHOLD - 1) |-> [matchId |-> 1, voter |-> i, team |-> "A"]]
    /\ syncPlayerRankLimiter = RateLimiter(10, 1000)
    /\ userCache \in {<<>>, [u \in 1..QUEUE_SIZE |-> [points |-> dbUsers[u].points, timestamp |-> 0]]}
    /\ guildMembers = NoRankRoles
    /\ h = [s \in {CreatorSlot} \cup Handlers |-> Idle]
    /\ hist = [NoHistory EXCEPT !.drains = 1, !.registered = 1,
                                !.picks = <<"A1", "B1", "B2">>, !.bans = <<"BAN_A", "BAN_B">>]

\* Players 4 and 5 vote, for either team.
FinalizeClick ==
    \E s \in Handlers, u \in {VOTE_THRESHOLD, VOTE_THRESHOLD + 1}, t \in {"A", "B"} :
        /\ nextInteraction < QUEUE_SIZE + DraftInteractions + VOTE_THRESHOLD + MaxFinalizeClicks
        /\ LowestIdle(s)
        /\ VoteClick(s, 1, u, t)

TickCache == Advance(CacheTick, MaxCacheTicks * CacheTick)

NextFinalize ==
    \/ FinalizeClick
    \/ VoteSteps
    \/ TickCache

SpecFinalize == InitFinalize /\ [][NextFinalize]_vars

(***************************************************************************)
(* SpecRoles: rank synchronisations of member 1, who holds any set of the  *)
(* first three rank roles (the member cache agrees with the server at the  *)
(* start), for totals in Bronze, Silver and Gold.  Every role call         *)
(* succeeds; the gateway's member updates arrive at any time.              *)
(***************************************************************************)
RolePoints == {RANK_SYSTEM[i].min : i \in 1..MaxRoleTiers}

InitRoles ==
    /\ now = 0
    /\ queues = [t \in Tiers |-> <<>>]
    /\ queueLocks = [t \in Tiers |-> FALSE]
    /\ creatingGamesInGuild = [t \in Tiers |-> FALSE]
    /\ matches = {}
    /\ states = <<>>
    /\ voteUpdateQueues = NoVoteUpdates
    /\ buttonCooldowns = <<>>
    /\ dodgeBans = <<>>
    /\ processedInteractions = {}
    /\ nextInteraction = 1
    /\ dbUsers = [u \in Users |-> [points |-> DefaultPoints, wins |-> 0, losses |-> 0]]
    /\ dbMatchStatus = <<>>
    /\ dbVotes = <<>>
    /\ syncPlayerRankLimiter = RateLimiter(10, 1000)
    /\ userCache = <<>>
    /\ \E held \in SUBSET {RANK_ROLES[i] : i \in 1..MaxRoleTiers} :
          guildMembers = [NoRankRoles EXCEPT ![1] = [roles |-> held, cache |-> held]]
    /\ h = [s \in Handlers |-> Idle]
    /\ hist = NoHistory

\* One synchronisation at a time, as in the loops of tryFinalize.
RoleSyncCall ==
    \E s \in Handlers, newPoints \in RolePoints :
        /\ Len(hist.admitted) < MaxRoleSyncs
        /\ \A c \in Handlers : h[c].pc = "idle"
        /\ LowestIdle(s)
        /\ syncPlayerRank(s, 1, newPoints)

NextRoles ==
    \/ RoleSyncCall
    \/ \E s \in Handlers, found \in BOOLEAN : MemberFetched(s, found)
    \/ \E s \in Handlers : RoleLoopEntered(s)
    \/ \E s \in Handlers : RoleRemoved(s)
    \/ \E s \in Handlers : RoleAdded(s)
    \/ \E u \in Users : GuildMemberUpdate(u)

SpecRoles == InitRoles /\ [][NextRoles]_vars

(***************************************************************************)
(* SpecRefresh: votes that do not finalize and the refreshes of the vote   *)
(* board they schedule, the refresh followed from its timer over its read  *)
(* of the votes to its edit of the message.  Players 1 and 2 vote.         *)
(***************************************************************************)
RefreshClick ==
    \E s \in Handlers, u \in 1..2, t \in {"A", "B"} :
        /\ nextInteraction <= QUEUE_SIZE + DraftInteractions + MaxRefreshClicks
        /\ LowestIdle(s)
        /\ VoteClick(s, 1, u, t)

NextRefresh ==
    \/ RefreshClick
    \/ \E s \in Handlers : VoteDeferred(s)
    \/ \E s \in Handlers : VoteFound(s)
    \/ \E s \in Handlers : VoteWritten(s)
    \/ \E s \in Handlers : TryFinalizeEnter(s)
    \/ \E s \in Handlers : CountVotes(s)
    \/ \E s \in Handlers : LowestIdle(s) /\ RefreshTimerFired(s, 1)
    \/ \E s \in Handlers : RefreshRead(s)
    \/ \E s \in Handlers : RefreshEdited(s)

SpecRefresh == InitVote /\ [][NextRefresh]_vars

(***************************************************************************)
(* SpecReset: SpecFinalize without the clock, with an admin's /reset-match *)
(* for the match arriving at any moment of the votes and the finalization. *)
(***************************************************************************)
ResetCommand ==
    \E s \in Handlers, isAdmin \in BOOLEAN :
        /\ \A c \in Handlers : h[c].kind # "reset"
        /\ 1 \in matches
        /\ LowestIdle(s)
        /\ ResetMatch(s, 1, isAdmin)

NextReset ==
    \/ FinalizeClick
    \/ VoteSteps
    \/ ResetCommand
    \/ \E s \in Handlers : ResetWritten(s)

SpecReset == InitFinalize /\ [][NextReset]_vars

(***************************************************************************)
(* SpecReject: clicks that the guards reject, among clicks they accept.    *)
(* One match is registered and persisted, in phase B2 with two players     *)
(* left or in phase BAN_A.  The captains and a player click pick and ban   *)
(* buttons, a player and an outsider vote, a player of the match and the   *)
(* outsider click join and leave.                                          *)
(***************************************************************************)
RejectStates ==
    {[DraftedState EXCEPT !.phase = "B2", !.teamA = {DraftedState.captainA, 3},
                          !.teamB = {DraftedState.captainB, 4}, !.remaining = <<5, 6>>,
                          !.availableMaps = MAPS, !.bannedMaps = <<>>, !.selectedMap = "",
                          !.voteStartTime = NoTime],
     [DraftedState EXCEPT !.phase = "BAN_A", !.availableMaps = MAPS, !.bannedMaps = <<>>,
                          !.selectedMap = "", !.voteStartTime = NoTime]}

InitReject ==
    /\ now = BUTTON_COOLDOWN
    /\ queues = [t \in Tiers |-> <<>>]
    /\ queueLocks = [t \in Tiers |-> FALSE]
    /\ creatingGamesInGuild = [t \in Tiers |-> FALSE]
    /\ matches = {1}
    /\ dbUsers = [u \in Users |-> [points |-> DefaultPoints, wins |-> 0, losses |-> 0]]
    /\ \E state \in RejectStates :
          /\ states = <<state>>
          /\ hist = [NoHistory EXCEPT !.drains = 1, !.registered = 1,
                                      !.picks = IF state.phase = "B2" THEN <<"A1", "B1">>
                                                ELSE <<"A1", "B1", "B2">>]
    /\ voteUpdateQueues = NoVoteUpdates
    /\ buttonCooldowns = [u \in 1..QUEUE_SIZE |-> [timestamp |-> 0, createdAt |-> 0]]
    /\ dodgeBans = <<>>
    /\ processedInteractions = 1..(QUEUE_SIZE + PickInteractions)
    /\ nextInteraction = QUEUE_SIZE + PickInteractions + 1
    /\ dbMatchStatus = <<"draft">>
    /\ dbVotes = <<>>
    /\ syncPlayerRankLimiter = RateLimiter(10, 1000)
    /\ userCache = <<>>
    /\ guildMembers = NoRankRoles
    /\ h = [s \in Handlers |-> Idle]

RejectClick ==
    \E s \in Handlers :
        /\ nextInteraction <= QUEUE_SIZE + PickInteractions + MaxRejectClicks
        /\ LowestIdle(s)
        /\ \/ \E u \in DraftActors, p \in {3, 5, 6} : PickClick(s, 1, u, p)
           \/ \E u \in DraftActors, m \in {MAPS[1], MAPS[2]} : BanClick(s, 1, u, m)
           \/ \E u \in {3, NumUsers} : VoteClick(s, 1, u, "A")
           \/ \E u \in {1, NumUsers}, kind \in {"join", "leave"} :
                 QueueClick(s, kind, u, "v3-general")

NextReject ==
    \/ RejectClick
    \/ DraftSteps
    \/ QueueSteps
    \/ \E s \in Handlers : VoteDeferred(s)
    \/ \E s \in Handlers : VoteFound(s)
    \/ \E s \in Handlers : VoteWritten(s)
    \/ \E s \in Handlers : TryFinalizeEnter(s)
    \/ \E s \in Handlers : CountVotes(s)
    \/ VoteMessageUpdated(1)

SpecReject == InitReject /\ [][NextReject]_vars

(***************************************************************************)
(*                              Properties                                 *)
(***************************************************************************)
QueuesOf(u) == {t \in Tiers : u \in Range(queues[t])}

\* C1: at every reachable state a member is in the queue of at most one tier,
\* also when the same member's joins for two tiers are in flight together.
C1_AtMostOneQueue == \A u \in Users : Cardinality(QueuesOf(u)) <= 1

\* Two joins of one member for two tiers were in flight together: one was
\* admitted, the other found the member in the other queue.
C1_Witness ==
    \E s1, s2 \in Handlers :
        /\ h[s1].kind = "join" /\ h[s2].kind = "join"
        /\ h[s1].user = h[s2].user /\ h[s1].tier # h[s2].tier
        /\ h[s1].pc = "updating" /\ h[s1].reply = "joined"
        /\ h[s2].pc = "replying" /\ h[s2].reply = "other"
        /\ QueuesOf(h[s1].user) = {h[s1].tier}

DrainStep(s) == h[s].pc \in {"updating", "gamelockwait"} /\ h'[s].pc = "drained"
RegisterStep(s) == h[s].pc = "sending" /\ h'[s].pc = "persisting"

\* C2: a drain takes exactly the first QUEUE_SIZE members in insertion order and
\* leaves the others queued, and when the match is registered none of its
\* participants is in the source queue.
C2_DrainExactlySix ==
    [][\A s \in Handlers :
        /\ DrainStep(s) =>
              LET q == queues[h[s].tier]
              IN /\ Len(q) >= QUEUE_SIZE
                 /\ h'[s].players = SubSeq(q, 1, QUEUE_SIZE)
                 /\ queues'[h[s].tier] = SubSeq(q, QUEUE_SIZE + 1, Len(q))
        /\ RegisterStep(s) =>
              /\ states[h[s].chan].players = Range(h[s].players)
              /\ Range(h[s].players) \cap Range(queues'[h[s].tier]) = {}]_vars

\* The parts of C2 and C3 that the code keeps, checked on their own.
DrainTakesFirstSix ==
    [][\A s \in Handlers :
        DrainStep(s) =>
            LET q == queues[h[s].tier]
            IN /\ Len(q) >= QUEUE_SIZE
               /\ h'[s].players = SubSeq(q, 1, QUEUE_SIZE)
               /\ queues'[h[s].tier] = SubSeq(q, QUEUE_SIZE + 1, Len(q))]_vars

InCreation(s) == h[s].pc \in {"drained", "creating", "sending", "persisting", "pinging"}
FailedRecheck(s) ==
    /\ h[s].pc = "gamelockwait" /\ h'[s] # h[s]
    /\ ~creatingGamesInGuild[h[s].tier]
    /\ Len(queues[h[s].tier]) < QUEUE_SIZE

FailedRecheckDoesNothing ==
    [][\A s \in Handlers :
        FailedRecheck(s) =>
            /\ h'[s] = Idle
            /\ ~creatingGamesInGuild'[h[s].tier]
            /\ UNCHANGED <<queues, matches, states, hist>>]_vars

OneCreationPerTier ==
    \A s1, s2 \in Handlers :
        (s1 # s2 /\ InCreation(s1) /\ InCreation(s2)) => h[s1].tier # h[s2].tier

\* C3: with several handlers seeing a full queue, a failed re-check does nothing
\* and releases the lock, at most one handler per tier is creating, and once no
\* creation is in progress every drained group of six has become a match.
C3_OneMatchPerDrain ==
    [][/\ \A s \in Handlers :
            FailedRecheck(s) =>
                /\ h'[s] = Idle
                /\ ~creatingGamesInGuild'[h[s].tier]
                /\ UNCHANGED <<queues, matches, states, hist>>
       /\ OneCreationPerTier'
       /\ (\A s \in Handlers : ~InCreation(s)') => hist'.registered = hist'.drains]_vars

IsPrefix(a, b) == Len(a) <= Len(b) /\ \A i \in 1..Len(a) : a[i] = b[i]

\* A pick handler evaluates its guard in this step.
PickGuardStep(s) == h[s].pc = "pickdefer" /\ h'[s].pc # "pickdefer"

\* The step closes the draft of match c.
DraftClosed(c) == states[c].phase = "B2" /\ states'[c].phase = "BAN_A"

\* C4: a pick changes the match state exactly when its actor is the captain of
\* the current phase and its target is in "remaining", every other pick leaves
\* the state alone; the accepted picks are taken in the phases A1, B1, B2 in
\* this order, one per phase, and the step that closes the draft leaves nobody
\* in "remaining", the last player being in team A.
C4_PickGuardAndOrder ==
    [][ /\ \A s \in Handlers : PickGuardStep(s) =>
              (states' # states <=> PickAllowed(states[h[s].chan], h[s].user, h[s].pick))
        /\ IsPrefix(hist'.picks, <<"A1", "B1", "B2">>)
        /\ \A c \in matches : DraftClosed(c) =>
              /\ states'[c].remaining = <<>>
              /\ Range(states[c].remaining) \subseteq states'[c].teamA
      ]_vars

\* C5: in every match whose phase is BAN_A or later the two teams are disjoint
\* and hold six members together.
C5_TeamsPartitionSix ==
    \A c \in matches : states[c].phase \in {"BAN_A", "BAN_B", "VOTE"} =>
        /\ Cardinality(states[c].teamA) + Cardinality(states[c].teamB) = QUEUE_SIZE
        /\ states[c].teamA \cap states[c].teamB = {}

\* C6: in every match in phase VOTE the selected map is an available map and not
\* a banned one, exactly two distinct maps are banned and five are available.
C6_SelectedMapFromFive ==
    \A c \in matches : states[c].phase = "VOTE" =>
        /\ states[c].selectedMap \in Range(states[c].availableMaps)
        /\ states[c].selectedMap \notin Range(states[c].bannedMaps)
        /\ Len(states[c].bannedMaps) = 2
        /\ Cardinality(Range(states[c].bannedMaps)) = 2
        /\ Len(states[c].availableMaps) = Len(MAPS) - 2

\* A vote handler's store write returns in this step.
VoteWriteStep(s) == h[s].pc \in {"votecreate", "voteupdate"} /\ h'[s].pc = "votereply"

\* C7: there is at most one vote row per match and voter, and the write of a
\* voter who has a row already leaves the number of rows alone and sets the
\* team of that row.
C7_OneVotePerVoter ==
    [][ /\ \A m \in Channels, u \in Users : Cardinality(VoteRows(m, u))' <= 1
        /\ \A s \in Handlers :
              (VoteWriteStep(s) /\ VoteRows(states[h[s].chan].matchId, h[s].user) # {}) =>
                  /\ Len(dbVotes') = Len(dbVotes)
                  /\ \A i \in VoteRows(states[h[s].chan].matchId, h[s].user) :
                        dbVotes'[i].team = h[s].team
      ]_vars

\* C8: no player is credited twice: each profile holds at most one win or loss
\* with the points to match, and once the match is flagged finalized and no
\* handler is still writing credits, every member of the winning side holds
\* exactly one win and one award, every member of the other side exactly one
\* loss and one penalty.
CreditedOnce(u) ==
    /\ dbUsers[u].wins + dbUsers[u].losses <= 1
    /\ dbUsers[u].points = DefaultPoints + POINTS_WIN * dbUsers[u].wins
                                         - POINTS_LOSS * dbUsers[u].losses

Crediting(c) == \E s \in Handlers : h[s].chan = c /\ h[s].pc \in {"markdone", "increment"}

C8_DeltasOnce ==
    /\ \A u \in Users : CreditedOnce(u)
    /\ \A c \in DOMAIN states : (states[c].finalized /\ ~Crediting(c)) =>
          \E w \in {states[c].teamA, states[c].teamB} :
              /\ \A u \in w : dbUsers[u].wins = 1
              /\ \A u \in (states[c].teamA \cup states[c].teamB) \ w : dbUsers[u].losses = 1

\* A handler is finalizing match c for the side it declared winner.
Declares(s, c) ==
    /\ h[s].chan = c
    /\ h[s].pc \in {"findbypk", "markdone", "increment", "ranksync", "posting"}

\* C9: a handler declares a winner only if VOTE_THRESHOLD players have voted for
\* that team, and while no team has had VOTE_THRESHOLD voters no profile is
\* changed, the match is not marked done or finalized and stays registered.
C9_FinalizeAtThreshold ==
    \A c \in DOMAIN states :
        /\ \A s \in Handlers : Declares(s, c) => h[s].winner \in hist.reached
        /\ hist.reached = {} =>
              /\ \A u \in Users : dbUsers[u] = [points |-> DefaultPoints, wins |-> 0, losses |-> 0]
              /\ dbMatchStatus[states[c].matchId] # "done"
              /\ ~states[c].finalized
              /\ c \in matches

\* A join handler runs its checks in this step.
JoinCheckStep(s) ==
    /\ h[s].kind = "join" /\ h[s].pc \in {"defer", "lockwait"} /\ h'[s].pc = "replying"

\* C10: a join that reaches the ban check while the member's ban, installed at
\* T with duration D and not lifted by an admin, has T <= now < T + D is
\* rejected as banned; from T + D on it is not rejected as banned.
C10_BanHoldsForDuration ==
    [][ \A s \in Handlers :
          (JoinCheckStep(s) /\ h[s].user \in DOMAIN hist.installed
                            /\ h'[s].reply \in {"banned", "ingame", "joined"}) =>
              LET ban == hist.installed[h[s].user]
              IN h'[s].reply = "banned" <=> (ban.T <= now /\ now < ban.T + ban.D)
      ]_vars

\* The step delivers a /dodge; who issued it and where is in hist.forfeit.
ForfeitStep == hist'.forfeit # hist.forfeit

\* The forfeit of this step is accepted: its handler installs the ban.
ForfeitAccepted ==
    /\ hist'.forfeit.user \in DOMAIN dodgeBans'
    /\ dodgeBans'[hist'.forfeit.user] = BanEntry(DODGE_BAN_DURATION)
    /\ \E s \in Handlers : h[s].pc = "idle" /\ h'[s].pc = "dodging"

\* The vote of match c has started and DODGE_TIME_LIMIT has not passed since.
InForfeitWindow(c) ==
    /\ states[c].voteStartTime # NoTime
    /\ now - states[c].voteStartTime <= DODGE_TIME_LIMIT

\* C11: a /dodge by a participant of a registered match is accepted exactly
\* when the match has a vote start time and at most DODGE_TIME_LIMIT has passed
\* since: it is rejected before the bans are complete and after the window,
\* and accepted inside the window.
C11_ForfeitOnlyInWindow ==
    [][ (/\ ForfeitStep
         /\ hist'.forfeit.chan \in matches
         /\ hist'.forfeit.user \in states[hist'.forfeit.chan].players) =>
            (ForfeitAccepted <=> InForfeitWindow(hist'.forfeit.chan))
      ]_vars

Registered == DOMAIN dbUsers

\* C12: in every match as created, captain B is a drained member with the
\* highest points, captain A is another one with the highest points among the
\* rest, and the four members left are the "remaining" pool, each captain
\* alone in their team.
C12_CaptainsByPoints ==
    \A c \in DOMAIN states :
        LET state == states[c]
            ranked == state.players \cap Registered
        IN  /\ state.captainB \in ranked
            /\ \A u \in ranked : dbUsers[state.captainB].points >= dbUsers[u].points
            /\ state.captainA \in ranked \ {state.captainB}
            /\ \A u \in ranked \ {state.captainB} :
                    dbUsers[state.captainA].points >= dbUsers[u].points
            /\ state.captainA # state.captainB
            /\ Range(state.remaining) = state.players \ {state.captainA, state.captainB}
            /\ Len(state.remaining) = QUEUE_SIZE - 2
            /\ state.teamA = {state.captainA} /\ state.teamB = {state.captainB}

\* A match is registered whose captains were not the first two rows: captain B
\* has more points than captain A, who has more than a member of the pool.
C12_Witness ==
    \E c \in matches :
        /\ states[c].captainB > states[c].captainA
        /\ states[c].captainA > 2
        /\ dbUsers[states[c].captainB].points > dbUsers[states[c].captainA].points
        /\ \E u \in Range(states[c].remaining) \cap Registered :
               dbUsers[u].points < dbUsers[states[c].captainA].points
        /\ \E u \in Range(states[c].remaining) : u \notin Registered

\* The queue of the first tier holds QUEUE_SIZE members.
QueueAtCapacity == Len(queues["v3-general"]) >= QUEUE_SIZE

\* A match of six members is registered and none of the six is queued.
MatchOfSixRegistered ==
    \E c \in matches :
        /\ Cardinality(states[c].players) = QUEUE_SIZE
        /\ states[c].players \cap Range(queues["v3-general"]) = {}

\* C13: with every handler in flight eventually taking its next step, a queue
\* that has reached QUEUE_SIZE members leads to a registered match of six
\* members who have left the queue, also when a message send or edit fails.
C13_CapacityLeadsToMatch == QueueAtCapacity ~> MatchOfSixRegistered

\* The reason of the fixed order that applies first to a join of member u in
\* tier t by a member who has the tier's role or not, "joined" if none does.
FirstReason(u, t, hasRole) ==
    IF u \in Range(queues[t]) THEN "already"
    ELSE IF \E t2 \in Tiers \ {t} : u \in Range(queues[t2]) THEN "other"
    ELSE IF QUEUE_ROLES[t] /\ ~hasRole THEN "role"
    ELSE IF u \in DOMAIN dodgeBans /\ now < dodgeBans[u].timestamp THEN "banned"
    ELSE IF \E c \in matches : u \in states[c].players /\ ~states[c].finalized THEN "ingame"
    ELSE "joined"

\* C14: a join that reaches the checks is answered with the first reason that
\* applies in the order already queued here, queued in another tier, role
\* missing, banned, in an unfinished match; the member is added to the end of
\* the tier's queue exactly when no reason applies, and otherwise every queue
\* stays as it was.
C14_RejectionOrder ==
    [][ \A s \in Handlers : JoinCheckStep(s) =>
            LET reason == FirstReason(h[s].user, h[s].tier, h'[s].role)
            IN /\ h'[s].reply = reason
               /\ queues' = IF reason = "joined"
                             THEN [queues EXCEPT ![h[s].tier] = Append(@, h[s].user)]
                             ELSE queues
      ]_vars

\* A join was answered "role" although the member is banned and plays in an
\* unfinished match as well.
C14_Witness ==
    \E s \in Handlers :
        /\ h[s].kind = "join" /\ h[s].pc = "replying" /\ h[s].reply = "role"
        /\ isUserDodgeBanned(h[s].user)
        /\ isUserInActiveMatch(h[s].user)

\* The step delivers again an interaction delivered before.
RedeliveryStep == Len(hist'.redelivered) = Len(hist.redelivered) + 1
Redelivered == hist'.redelivered[Len(hist'.redelivered)]

\* The interaction of this step is dropped: no handler starts for it and no
\* registry changes.
Dropped ==
    /\ h' = h
    /\ UNCHANGED <<queues, matches, states, dbVotes, dodgeBans, buttonCooldowns>>

\* The identifier was delivered since the seen-set was last emptied.
DeliveredSinceClear(id) ==
    \/ hist.clearedAt <= id /\ id < nextInteraction
    \/ id \in hist.reprocessed

Admitted == hist.admitted

\* C16, first part: any maxRequests + 1 admitted calls span at least windowMs,
\* that is, no interval shorter than windowMs holds more than maxRequests
\* admissions.
C16_WindowHoldsAtMostMax ==
    \A i, j \in 1..Len(Admitted) :
        j - i >= syncPlayerRankLimiter.maxRequests =>
            Admitted[j] - Admitted[i] >= syncPlayerRankLimiter.windowMs

\* The step admits the caller of slot s.
Admits(s) == h[s].pc \in {"idle", "limiterwait"} /\ h'[s].pc = "memberfetch"

\* C16, second part: a caller that finds the log full is suspended until the
\* oldest logged call leaves the window, and is admitted from its suspension
\* only at or after that time and only if the log, re-evaluated, is below the cap.
C16_SuspendedUntilWindowMoves ==
    [][\A s \in Handlers :
          /\ (h[s].pc \in {"idle", "limiterwait"} /\ h'[s].pc = "limiterwait" /\ h'[s] # h[s])
                 => /\ Len(InWindow(syncPlayerRankLimiter)) >= syncPlayerRankLimiter.maxRequests
                    /\ h'[s].t0 = InWindow(syncPlayerRankLimiter)[1] + syncPlayerRankLimiter.windowMs
                    /\ h'[s].t0 > now
                    /\ hist'.admitted = hist.admitted
          /\ (h[s].pc = "limiterwait" /\ Admits(s))
                 => /\ now >= h[s].t0
                    /\ Len(InWindow(syncPlayerRankLimiter)) < syncPlayerRankLimiter.maxRequests
          /\ Admits(s)
                 => /\ hist'.admitted = Append(hist.admitted, now)
                    /\ syncPlayerRankLimiter'.requests[Len(syncPlayerRankLimiter'.requests)] = now
      ]_vars

\* C16: for the rate limiter, any time interval shorter than windowMs holds at
\* most maxRequests admitted wait() calls, for any number of concurrent callers,
\* and a caller that finds the log full is suspended until the oldest logged
\* call leaves the window and re-evaluates before it is admitted.
C16_RateLimiter == C16_SuspendedUntilWindowMoves /\ []C16_WindowHoldsAtMostMax

\* Two callers were suspended at once, a caller was suspended twice in a row or
\* more, and more admissions than the cap have been logged.
C16_Witness ==
    /\ Len(Admitted) > syncPlayerRankLimiter.maxRequests + 1
    /\ hist.suspended >= 3
    /\ \A s \in Handlers : h[s].pc = "limiterwait"

\* The tier the claim gives for a point total.
ClaimedRank(points) ==
    IF points < 0 THEN "Bronze"
    ELSE IF points <= 1250 THEN "Bronze"
    ELSE IF points <= 1500 THEN "Silver"
    ELSE IF points <= 1750 THEN "Gold"
    ELSE IF points <= 2000 THEN "Platinium"
    ELSE IF points <= 2250 THEN "Diamond"
    ELSE "Supersonic"

\* C17: getRankByPoints gives every integer total exactly one tier: Bronze for
\* 0-1250 and for every negative total, Silver for 1251-1500, Gold for
\* 1501-1750, Platinium for 1751-2000, Diamond for 2001-2250, Supersonic from
\* 2251 on; exactly one range of RANK_SYSTEM holds a non-negative total.
C17_RankByPoints ==
    \A s \in Handlers :
        h[s].pc = "rolesync" =>
            /\ h[s].rank = ClaimedRank(h[s].points)
            /\ h[s].points >= 0 =>
                   Cardinality({i \in 1..Len(RANK_SYSTEM) :
                                   /\ h[s].points >= RANK_SYSTEM[i].min
                                   /\ AtMost(h[s].points, RANK_SYSTEM[i].max)}) = 1
            /\ h[s].points < 0 =>
                   \A i \in 1..Len(RANK_SYSTEM) : h[s].points < RANK_SYSTEM[i].min

\* A total on the upper end of a range has been ranked, after an earlier call.
C17_Witness ==
    \E s \in Handlers :
        /\ h[s].pc = "rolesync"
        /\ h[s].points = 1500
        /\ h[s].rank = "Silver"
        /\ Len(hist.admitted) > 1

\* Another handler of the same match is suspended on the store write of a
\* pick it applied in the current phase.
PickPending(s) ==
    \E o \in Handlers :
        /\ o # s
        /\ h[o].pc = "pickwrite"
        /\ h[o].chan = h[s].chan
        /\ h[o].branch = states[h[s].chan].phase
        /\ h[o].pick # h[s].pick

\* C18: when a pick click by the captain of the current phase on a player in
\* "remaining" is handled while the handler of another such click is suspended
\* on its store write, the second click's guard fails and it leaves the match
\* state unchanged, so that only one pick is applied for the phase.
C18_RacingPickRejected ==
    [][\A s \in Handlers :
          (/\ PickGuardStep(s)
           /\ PickPending(s)
           /\ PickAllowed(states[h[s].chan], h[s].user, h[s].pick))
          => /\ states' = states
             /\ hist'.picks = hist.picks]_vars

\* C19: in every registered match in a draft phase teamA, teamB and "remaining"
\* together hold exactly the participants, teamA and teamB are disjoint,
\* captain A is in teamA and captain B is in teamB.
C19_DraftPartition ==
    \A c \in matches : states[c].phase \in {"A1", "B1", "B2"} =>
        /\ states[c].teamA \cup states[c].teamB \cup Range(states[c].remaining)
               = states[c].players
        /\ states[c].teamA \cap states[c].teamB = {}
        /\ states[c].captainA \in states[c].teamA
        /\ states[c].captainB \in states[c].teamB

\* A ban handler evaluates its guard in this step.
BanGuardStep(s) == h[s].pc = "bandefer" /\ h'[s].pc # "bandefer"

\* C20: a ban changes the match state only in phase BAN_A by captain A or in
\* phase BAN_B by captain B and only for an available map; it moves exactly that
\* map from the available list to the banned list and advances BAN_A to BAN_B
\* or BAN_B to VOTE; the applied bans are one in BAN_A and then one in BAN_B,
\* never two in the same phase.
C20_BanGuardAndAdvance ==
    [][ /\ \A s \in Handlers : (BanGuardStep(s) /\ states' # states) =>
              LET state == states[h[s].chan]
                  after == states'[h[s].chan]
              IN /\ \/ state.phase = "BAN_A" /\ h[s].user = state.captainA
                    \/ state.phase = "BAN_B" /\ h[s].user = state.captainB
                 /\ h[s].map \in Range(state.availableMaps)
                 /\ after.availableMaps = SetDelete(state.availableMaps, h[s].map)
                 /\ after.bannedMaps = Append(state.bannedMaps, h[s].map)
                 /\ after.phase = IF state.phase = "BAN_A" THEN "BAN_B" ELSE "VOTE"
        /\ IsPrefix(hist'.bans, <<"BAN_A", "BAN_B">>)
      ]_vars

\* The handler of slot s is inside the membership critical section of tier t
\* (between acquireQueueLock and the `finally` of part_011:727-770, 773-785).
HoldsQueueLock(s, t) == h[s].pc = "replying" /\ h[s].tier = t

\* The handler of slot s is inside the creation critical section of tier t
\* (part_011:793-805).
HoldsCreationLock(s, t) == InCreation(s) /\ h[s].tier = t

\* C21: every step that changes the membership of a tier's queue is taken by a
\* handler that holds that tier's membership lock when it changes it, and no
\* handler changes the queue while another handler is inside the critical
\* section of a join or a leave.
C21_MutationUnderQueueLock ==
    [][\A t \in Tiers : queues'[t] # queues[t] =>
          /\ queueLocks'[t]
          /\ \E s \in DOMAIN h : ~HoldsQueueLock(s, t) /\ HoldsQueueLock(s, t)'
          /\ \A s \in DOMAIN h : ~HoldsQueueLock(s, t)]_vars

\* C22: for each tier at most one handler is inside the membership critical
\* section and at most one inside the creation critical section, and the flag
\* of a lock is set while a handler is inside.
C22_MutualExclusion ==
    \A t \in Tiers :
        /\ Cardinality({s \in DOMAIN h : HoldsQueueLock(s, t)}) <= 1
        /\ Cardinality({s \in DOMAIN h : HoldsCreationLock(s, t)}) <= 1
        /\ (\E s \in DOMAIN h : HoldsQueueLock(s, t)) => queueLocks[t]
        /\ (\E s \in DOMAIN h : HoldsCreationLock(s, t)) => creatingGamesInGuild[t]

\* A handler polls the creation lock while another handler, which has drained
\* the queue, creates a match.
C22_Witness ==
    /\ \E s, o \in DOMAIN h :
          /\ h[s].pc = "gamelockwait"
          /\ HoldsCreationLock(o, h[s].tier)
    /\ hist.drains = 1

\* C23: no lock flag is set while no handler is inside its critical section:
\* the membership lock and the creation lock are released on every way out,
\* normal completion, early return and exception.
C23_LocksReleased ==
    \A t \in Tiers :
        /\ queueLocks[t] => \E s \in DOMAIN h : HoldsQueueLock(s, t)
        /\ creatingGamesInGuild[t] => \E s \in DOMAIN h : HoldsCreationLock(s, t)

\* A creation ended by an exception after the drain (no match was registered),
\* every handler has returned and both locks are free.
C23_Witness ==
    /\ hist.drains = 1 /\ hist.registered = 0
    /\ \A s \in DOMAIN h : h[s].pc = "idle"
    /\ \A t \in Tiers : ~queueLocks[t] /\ ~creatingGamesInGuild[t]

\* The last /dodge delivered was issued by a participant of its match inside
\* the forfeit window, and its handler has returned.
ForfeitDue ==
    LET f == hist.forfeit
    IN /\ f.id # 0
       /\ f.chan \in DOMAIN states
       /\ f.user \in states[f.chan].players
       /\ f.start # NoTime
       /\ f.at - f.start <= DODGE_TIME_LIMIT
       /\ \A s \in DOMAIN h : h[s].pc = "idle"

\* C24: after an accepted forfeit the forfeiting member is banned until
\* DODGE_BAN_DURATION (1 hour) after the forfeit, the persisted match is
\* marked cancelled, the match state and its vote-throttle flag have left the
\* registries, and no participant is in an active match any more.
C24_ForfeitCancelsMatch ==
    ForfeitDue =>
        LET f == hist.forfeit
            state == states[f.chan]
        IN /\ f.user \in DOMAIN dodgeBans
           /\ dodgeBans[f.user].timestamp = f.at + DODGE_BAN_DURATION
           /\ state.matchId # NoMatchId => /\ state.matchId \in DOMAIN dbMatchStatus
                                           /\ dbMatchStatus[state.matchId] = "cancelled"
           /\ f.chan \notin matches
           /\ state.matchId \notin voteUpdateQueues.keys
           /\ \A p \in state.players : ~isUserInActiveMatch(p)

\* The step is a cleanup sweep (in SpecSweep only a sweep moves the clock).
SweepStep == now' # now

\* C25: a cleanup sweep removes a match state from the registry exactly when
\* its age since creation exceeds MATCH_TTL (12 hours), removes the
\* vote-throttle flags of the matches it removes and no other, and leaves the
\* younger match states and every queue unchanged.
C25_SweepRemovesOnlyOld ==
    [][SweepStep =>
          /\ matches' \subseteq matches
          /\ \A c \in matches : c \notin matches' <=> now' - states[c].createdAt > MATCH_TTL
          /\ voteUpdateQueues'.keys =
                 voteUpdateQueues.keys \ {states[c].matchId : c \in matches \ matches'}
          /\ states' = states
          /\ queues' = queues]_vars

\* A sweep has removed the old match with its flag (the timer of the flag is
\* still pending); the young match and its flag are in the registries and
\* member 13 is queued.
C25_Witness ==
    /\ matches = {2}
    /\ voteUpdateQueues.keys = {2}
    /\ 1 \in Range(voteUpdateQueues.timers)
    /\ queues["v3-general"] = <<2 * QUEUE_SIZE + 1>>

\* C26: every match state in the registry is eventually removed from it, at
\* the latest by the sweeper, and every member rejected as "in game" is
\* eventually not rejected any more.
C26_MatchEventuallyRemoved ==
    /\ \A c \in {1, 2} : (c \in matches) ~> (c \notin matches)
    /\ \A u \in SweepUsers : isUserInActiveMatch(u) ~> ~isUserInActiveMatch(u)

\* The sweeper has removed both stuck matches, the young one at the first
\* sweep after its age passed MATCH_TTL.
C26_Witness ==
    /\ matches = {}
    /\ now = SweepStart + MATCH_TTL + CLEANUP_INTERVAL
    /\ \A u \in SweepUsers : ~isUserInActiveMatch(u)

\* The step starts a handler of a match button in slot s: the click found a
\* state in the registry.
StartsOnMatch(s) == h[s].pc = "idle" /\ h'[s].pc \in {"pickdefer", "bandefer", "votedefer"}

\* C27: a match state whose finalized flag is set is out of use: no handler
\* that starts finds it in the registry, no step changes it and no vote is
\* written for its match.
C27_FinalizedNeverUsed ==
    [][ /\ \A s \in DOMAIN h : StartsOnMatch(s) => ~states[h'[s].chan].finalized
        /\ \A c \in DOMAIN states :
              (c \in DOMAIN states' /\ states[c].finalized) => states'[c] = states[c]
        /\ \A s \in DOMAIN h : VoteWriteStep(s) => ~states[h[s].chan].finalized
      ]_vars

\* The pick that slot s holds is one the guard must reject: the actor is not
\* the captain of the phase, or the target is not in "remaining".
PickToReject(s) ==
    LET state == states[h[s].chan]
    IN \/ state.phase = "A1" /\ h[s].user # state.captainA
       \/ state.phase \in {"B1", "B2"} /\ h[s].user # state.captainB
       \/ h[s].pick \notin Range(state.remaining)

\* The ban that slot s holds is one the guard must reject.
BanToReject(s) ==
    LET state == states[h[s].chan]
    IN \/ state.phase = "BAN_A" /\ h[s].user # state.captainA
       \/ state.phase = "BAN_B" /\ h[s].user # state.captainB
       \/ h[s].map \notin Range(state.availableMaps)

\* A queue handler gets its verdict in this step, and the verdict is a rejection.
QueueRejectStep(s) ==
    /\ h[s].pc \in {"defer", "lockwait"} /\ h'[s].pc = "replying"
    /\ \/ h[s].kind = "join" /\ FirstReason(h[s].user, h[s].tier, h'[s].role) # "joined"
       \/ h[s].kind = "leave" /\ h[s].user \notin Range(queues[h[s].tier])

\* A vote handler of a member who is no player of the match passes deferReply.
OutsiderVoteStep(s) ==
    /\ h[s].pc = "votedefer" /\ h'[s].pc # "votedefer"
    /\ h[s].user \notin states[h[s].chan].players

\* The step delivers a click that is answered and dropped before a handler starts.
DroppedAtEntry == nextInteraction' # nextInteraction /\ h' = h

\* C28: a guard rejection leaves the state unchanged: a rejected join and a
\* leave by a non-member leave every queue and the match registry unchanged; a
\* rejected pick, a rejected ban and a vote by a non-participant leave the
\* match states and the vote records unchanged.
C28_RejectionChangesNothing ==
    [][ /\ \A s \in Handlers : QueueRejectStep(s) =>
              /\ queues' = queues /\ matches' = matches
              /\ h'[s].reply \notin {"joined", "left"}
        /\ \A s \in Handlers :
              (\/ PickGuardStep(s) /\ PickToReject(s)
               \/ BanGuardStep(s) /\ BanToReject(s)
               \/ OutsiderVoteStep(s)) =>
                  /\ states' = states /\ dbVotes' = dbVotes /\ matches' = matches
                  /\ h'[s].pc = "idle"
        /\ DroppedAtEntry =>
              /\ queues' = queues /\ matches' = matches
              /\ states' = states /\ dbVotes' = dbVotes
      ]_vars

\* Every click has been delivered and handled, player 1 of the match clicked a
\* queue button at this instant and was refused, and nothing the guards
\* protect has moved: no queue entry, no pick, no ban, no vote record.
C28_Witness ==
    /\ nextInteraction = QUEUE_SIZE + PickInteractions + MaxRejectClicks + 1
    /\ \A s \in Handlers : h[s].pc = "idle"
    /\ queues["v3-general"] = <<>>
    /\ dbVotes = <<>>
    /\ states[1] \in RejectStates
    /\ 1 \in DOMAIN buttonCooldowns /\ buttonCooldowns[1].timestamp = BUTTON_COOLDOWN

\* A pick handler comes back from a store write of the pick: the write of
\* updateDbOnPick, or the write that records the auto-assigned last player.
PickWriteReturns(s) ==
    /\ h[s].kind = "pick" /\ h[s].pc \in {"pickwrite", "lastwrite"}
    /\ h'[s].pc # h[s].pc

\* C29: a failed store write during a pick does not stop the in-memory draft:
\* when the write for the B1 pick returns the phase is B2 at the latest, and
\* when the write that records the auto-assigned last player returns,
\* successfully or not, "remaining" is empty and the phase is BAN_A or later.
C29_WriteFailureKeepsDraftGoing ==
    [][\A s \in Handlers : PickWriteReturns(s) =>
          LET after == states'[h[s].chan]
          IN /\ h[s].pc = "lastwrite" =>
                    after.remaining = <<>> /\ after.phase \notin {"A1", "B1", "B2"}
             /\ h[s].pc = "pickwrite" /\ h'[s].pc = "idle" => after.phase # h[s].branch
      ]_vars

\* Slot s leaves the rank sync of tryFinalize in this step.
RankSyncStep(s) == h[s].pc = "ranksync" /\ h'[s].pc = "posting"

\* C30: at first finalization every participant is synced to the tier of the
\* point total the store holds after the win award or the loss penalty, not
\* to the tier of the total read before the deltas.
C30_SyncedTierAfterDeltas ==
    [][\A s \in Handlers : RankSyncStep(s) =>
          \A u \in Range(h[s].winners \o h[s].losers) :
              /\ u \in DOMAIN hist'.synced
              /\ hist'.synced[u] = getRankByPoints(dbUsers[u].points)
      ]_vars

\* Slot s returns from syncPlayerRank in this step, the member having been found.
RankSyncReturns(s) ==
    /\ h[s].kind = "rank"
    /\ h[s].pc \in {"rolesync", "roleremove", "roleadd"}
    /\ h'[s].pc = "idle"

\* C31: when syncPlayerRank completes for a member, no role call having
\* failed, the member holds exactly one rank role, the role of the tier of the
\* given total, whatever rank roles the member held before.
C31_ExactlyTheTierRole ==
    [][\A s \in Handlers : RankSyncReturns(s) =>
          guildMembers'[h[s].user].roles = {getRankByPoints(h[s].points)}
      ]_vars

\* The number of refresh timers that are pending for a match.
PendingRefreshes(matchId) ==
    Cardinality({i \in 1..Len(voteUpdateQueues.timers) : voteUpdateQueues.timers[i] = matchId})

\* C32: for each match at most one vote-board refresh is pending at any time,
\* and a match with a pending refresh has its throttle flag set until the
\* refresh has run.
C32_OneRefreshPending ==
    \A c \in DOMAIN states :
        /\ PendingRefreshes(states[c].matchId) <= 1
        /\ c \in matches /\ PendingRefreshes(states[c].matchId) = 1
               => states[c].matchId \in voteUpdateQueues.keys

\* What the vote board of a match shows: the votes of its last edit.
Shown(matchId) == IF matchId \in DOMAIN hist.shown THEN hist.shown[matchId] ELSE {}

\* No vote handler runs, no refresh is pending and none is in progress: unless
\* another vote arrives nothing will edit the board again.
RefreshesOver ==
    /\ \A s \in DOMAIN h : h[s].pc = "idle"
    /\ voteUpdateQueues.timers = <<>>

\* C33: once the votes for a registered match have stopped and the refreshes
\* have run, the board shows every recorded vote: the last refresh read the
\* votes after the last vote write, and no vote written while a refresh was in
\* progress is left without a later refresh.
C33_EveryVoteShown ==
    \A c \in matches : RefreshesOver => Shown(states[c].matchId) = VotesOf(states[c].matchId)

\* The identifiers that are in the queue of some tier.
InSomeQueue == UNION {Range(queues[t]) : t \in Tiers}

\* The matches that are registered and not finalized.
ActiveMatches == {c \in matches : ~states[c].finalized}

\* C34: no identifier is both a member of some tier's queue and a participant
\* of a registered, not finalized match.
C34_QueuedOrPlaying ==
    \A c \in ActiveMatches : states[c].players \cap InSomeQueue = {}

\* C35: no identifier is a participant of two registered, not finalized
\* matches at the same time.
C35_OneMatchPerPlayer ==
    \A c, d \in ActiveMatches : c # d => states[c].players \cap states[d].players = {}

\* C36: when the draft of a match is complete (phase BAN_A or later) each team
\* has exactly three members: team A its captain, one pick and the
\* auto-assigned player, team B its captain and two picks.
C36_ThreePerTeam ==
    \A c \in matches : states[c].phase \in {"BAN_A", "BAN_B", "VOTE"} =>
        /\ Cardinality(states[c].teamA) = 3
        /\ Cardinality(states[c].teamB) = 3
        /\ states[c].captainA \in states[c].teamA
        /\ states[c].captainB \in states[c].teamB

\* The phases in their order.
PhaseOrder == <<"A1", "B1", "B2", "BAN_A", "BAN_B", "VOTE">>
PhaseIndex(phase) == CHOOSE i \in 1..Len(PhaseOrder) : PhaseOrder[i] = phase

\* C37: the phase of a match never moves backwards: every change of the phase
\* of a match goes to the next phase of A1, B1, B2, BAN_A, BAN_B, VOTE.
C37_PhaseForward ==
    [][\A c \in DOMAIN states \cap DOMAIN states' :
          states'[c].phase # states[c].phase =>
              PhaseIndex(states'[c].phase) = PhaseIndex(states[c].phase) + 1
      ]_vars

\* C38: a vote is recorded, and a match finalized, only while the match is in
\* phase VOTE: a vote handler writes a vote record or declares a winner only
\* for a match whose phase is VOTE.
C38_VoteOnlyInVotePhase ==
    [][\A s \in Handlers :
          (VoteWriteStep(s) \/ (h[s].pc = "findall" /\ h'[s].pc = "findbypk"))
              => states[h[s].chan].phase = "VOTE"
      ]_vars

\* The match of channel c left the registry without having been finalized: it
\* was cancelled or evicted.
Cancelled(c) == c \in DOMAIN states /\ c \notin matches /\ ~states[c].finalized

\* C39: after a match has been cancelled or evicted no win, loss or point delta
\* is applied for it and its persisted status does not become "done", also
\* when a vote handler for the match was in progress at the cancellation.
C39_NoDeltasAfterCancel ==
    [][\A s \in Handlers :
          (h[s].kind = "vote" /\ h[s].chan # NoChan /\ Cancelled(h[s].chan)) =>
              /\ dbUsers' = dbUsers
              /\ \A m \in DOMAIN dbMatchStatus' :
                    dbMatchStatus'[m] = "done" => m \in DOMAIN dbMatchStatus /\ dbMatchStatus[m] = "done"
      ]_vars

\* The creation of slot s ends before its match state is registered: the
\* queue refresh after the drain, the channel creation, the profile fetch, the
\* captain selection or the send of the draft board threw.
CreationFailed(s) == h[s].pc \in {"drained", "creating", "sending"} /\ h'[s].pc = "idle"

\* C40: the six identifiers drained for a match are not lost: when the
\* creation fails before the match state is registered, the six are put back
\* in the queue they were taken from.
C40_DrainedNeverLost ==
    [][\A s \in Handlers :
          CreationFailed(s) => Range(h[s].players) \subseteq Range(queues'[h[s].tier])]_vars

=============================================================================
